---------------------------- MODULE Spec2Model ----------------------------
(***************************************************************************)
(* A model of the tmbot3000 query pipeline: the intent matcher             *)
(* (tmIntentMatcher.js), the term engine (tmAiEngine.js: parseMessage,     *)
(* findFieldForTerm, retrieveData, generateResponseText) and the flight    *)
(* scheduler (formatUpcomingFlights with its timezone conversion).         *)
(*                                                                         *)
(* JavaScript strings are sequences of one-character strings, so that      *)
(* includes, startsWith and the regular expressions of the source are      *)
(* computed character by character.  A nullable value is a sequence of     *)
(* length at most one: None is null/undefined, Some(x) is the value x.     *)
(***************************************************************************)
EXTENDS Integers, Sequences, FiniteSets, TLC

VARIABLES
  termIndex,      \* the vocabulary of termIndex.js, in lookup order
  mi,             \* the last matchIntent call: content, fault, hit, rules consulted, outcome
  hourCycle,      \* what hour12: false resolves to in this runtime
  tz,             \* the last zonedLocalToEpochMs call: wall-clock fields, text, zone, outcome
  ff,             \* the last findFieldForTerm call: show, term, verb, result
  industryTerms,  \* TmAiEngine.industryTerms
  cities,         \* TmAiEngine.cities
  loading,        \* the loads started and not yet completed: "terms", "cities"
  shows,          \* what dataSource.getShows gives: [ok, rows]
  answers,        \* the definition store tm_answers: [ok, defs]
  flights,        \* travel_flights.csv: None when the file is missing, else Some(rows)
  nowUtc,         \* Date.now(), in seconds
  pm,             \* the last parseMessage call
  rd,             \* the last retrieveData call
  fu,             \* the last formatUpcomingFlights call
  req,            \* the last generateResponse call
  rt              \* the last generateResponseText call

intentVars == <<termIndex, mi>>
engineVars == <<industryTerms, cities, loading>>
dataVars == <<shows, answers, flights, nowUtc>>
callVars == <<tz, ff, pm, rd, fu, req, rt>>

vars == <<termIndex, mi, hourCycle, tz, ff, industryTerms, cities, loading, shows, answers,
          flights, nowUtc, pm, rd, fu, req, rt>>

None == <<>>
Some(x) == <<x>>

\* const x = v; F(x): the value v is computed once and bound to x
With(v, F(_)) == CHOOSE r \in {F(x) : x \in {v}} : TRUE

\* a sequence given by a rule, as the tuple of its elements
AsTuple(f) == <<>> \o f

----------------------------------------------------------------------------
(* JavaScript string primitives *)

UpperChars == <<"A","B","C","D","E","F","G","H","I","J","K","L","M","N","O","P","Q","R","S","T","U","V","W","X","Y","Z">> (* ABCDEFGHIJKLMNOPQRSTUVWXYZ *)
LowerChars == <<"a","b","c","d","e","f","g","h","i","j","k","l","m","n","o","p","q","r","s","t","u","v","w","x","y","z">> (* abcdefghijklmnopqrstuvwxyz *)
DigitChars == <<"0","1","2","3","4","5","6","7","8","9">> (* 0123456789 *)

Range(s) == {s[i] : i \in 1..Len(s)}

\* one character of String.prototype.toLowerCase
LowerChar(c) ==
  IF \E i \in 1..Len(UpperChars) : UpperChars[i] = c
    THEN LowerChars[CHOOSE i \in 1..Len(UpperChars) : UpperChars[i] = c]
    ELSE c

toLowerCase(s) == [i \in 1..Len(s) |-> LowerChar(s[i])]

\* the regular expression classes \w and \s
IsWordChar(c) == c \in Range(UpperChars) \cup Range(LowerChars) \cup Range(DigitChars) \cup {"_"}
IsSpaceChar(c) == c \in {" ", "\t", "\n", "\r"}

\* s.includes(t)
Includes(s, t) == \E i \in 0..(Len(s) - Len(t)) : SubSeq(s, i + 1, i + Len(t)) = t

\* s.startsWith(t) and s.endsWith(t)
StartsWith(s, t) == Len(t) <= Len(s) /\ SubSeq(s, 1, Len(t)) = t
EndsWith(s, t) == Len(t) <= Len(s) /\ SubSeq(s, Len(s) - Len(t) + 1, Len(s)) = t

\* t occurs in s at index i (1-based)
OccursAt(s, t, i) == i >= 1 /\ i + Len(t) - 1 <= Len(s) /\ SubSeq(s, i, i + Len(t) - 1) = t

RECURSIVE DropLeadingSpace(_)
DropLeadingSpace(s) ==
  IF s # <<>> /\ IsSpaceChar(Head(s)) THEN DropLeadingSpace(Tail(s)) ELSE s

RECURSIVE DropTrailingSpace(_)
DropTrailingSpace(s) ==
  IF s # <<>> /\ IsSpaceChar(s[Len(s)]) THEN DropTrailingSpace(SubSeq(s, 1, Len(s) - 1)) ELSE s

\* String.prototype.trim
trim(s) == DropTrailingSpace(DropLeadingSpace(s))

\* s.replace(/\s+/g, " ")
RECURSIVE CollapseSpace(_)
CollapseSpace(s) ==
  IF s = <<>> THEN <<>>
  ELSE IF IsSpaceChar(Head(s)) THEN <<" ">> \o CollapseSpace(DropLeadingSpace(Tail(s)))
  ELSE <<Head(s)>> \o CollapseSpace(Tail(s))

\* s.replace(/[^\w\s]/g, " ")
ReplaceNonWord(s) ==
  [i \in 1..Len(s) |-> IF IsWordChar(s[i]) \/ IsSpaceChar(s[i]) THEN s[i] ELSE " "]

\* s.replace(/[^a-z0-9]/g, "") after lowercasing
RECURSIVE KeepAlnum(_)
KeepAlnum(s) ==
  IF s = <<>> THEN <<>>
  ELSE IF Head(s) \in Range(LowerChars) \cup Range(DigitChars)
    THEN <<Head(s)>> \o KeepAlnum(Tail(s))
  ELSE KeepAlnum(Tail(s))

\* the \b of a regular expression, between s[i-1] and s[i]
WordBoundary(s, i) ==
  LET before == i > 1 /\ i - 1 <= Len(s) /\ IsWordChar(s[i - 1])
      after == i >= 1 /\ i <= Len(s) /\ IsWordChar(s[i])
  IN before # after

SP == <<" ">>

----------------------------------------------------------------------------
(* tmIntentMatcher.js *)

\* textUtils.cleanName: the file is not part of the sources; the matcher only
\* relies on it returning a string, modelled as the trimmed text
cleanName(content) == trim(content)

\* normalizer.normalize: not part of the sources; modelled as the
\* normalization the specification gives (lowercase, non-word characters to
\* spaces, whitespace collapsed, trimmed)
normalize(input) == trim(CollapseSpace(ReplaceNonWord(toLowerCase(input))))

\* termIndex.lookupExact: the first vocabulary entry equal to the normalized text
lookupExact(index, norm) ==
  IF \E i \in 1..Len(index) : index[i] = norm
    THEN Some([term_id |-> norm])
    ELSE None

\* termIndex.lookupInSentence: the first vocabulary entry occurring in the sentence
lookupInSentence(index, norm) ==
  IF \E i \in 1..Len(index) : Includes(norm, index[i])
    THEN LET i == CHOOSE j \in 1..Len(index) :
                    /\ Includes(norm, index[j])
                    /\ \A k \in 1..(j - 1) : ~Includes(norm, index[k])
         IN Some([term_id |-> index[i]])
    ELSE None

\* x[- ]?y as a search
OptSep(q, x, y) ==
  Includes(q, x \o y) \/ Includes(q, x \o <<"-">> \o y) \/ Includes(q, x \o SP \o y)

\* x.?y as a search; "." matches any character but a line terminator
OptAny(q, x, y) ==
  \/ Includes(q, x \o y)
  \/ \E i \in 1..Len(q) :
       /\ OccursAt(q, x, i)
       /\ i + Len(x) <= Len(q)
       /\ q[i + Len(x)] \notin {"\n", "\r"}
       /\ OccursAt(q, y, i + Len(x) + 1)

\* x.*y as a search
AnyBetween(q, x, y) ==
  \E i \in 1..Len(q) : \E j \in 1..Len(q) :
    /\ OccursAt(q, x, i)
    /\ j >= i + Len(x)
    /\ OccursAt(q, y, j)
    /\ \A k \in (i + Len(x))..(j - 1) : q[k] \notin {"\n", "\r"}

\* /schedule|showtime|what time.*show/
ReSchedule(q) ==
  Includes(q, <<"s","c","h","e","d","u","l","e">> (* schedule *)) \/ Includes(q, <<"s","h","o","w","t","i","m","e">> (* showtime *)) \/ AnyBetween(q, <<"w","h","a","t"," ","t","i","m","e">> (* what time *), <<"s","h","o","w">> (* show *))

\* /load in|load-out|sound.?check|curfew|setlist/
ReProduction(q) ==
  \/ Includes(q, <<"l","o","a","d"," ","i","n">> (* load in *)) \/ Includes(q, <<"l","o","a","d","-","o","u","t">> (* load-out *))
  \/ OptAny(q, <<"s","o","u","n","d">> (* sound *), <<"c","h","e","c","k">> (* check *))
  \/ Includes(q, <<"c","u","r","f","e","w">> (* curfew *)) \/ Includes(q, <<"s","e","t","l","i","s","t">> (* setlist *))

\* /flight|airport|travel|hotel|check[- ]?in|check[- ]?out/
ReTravel(q) ==
  \/ Includes(q, <<"f","l","i","g","h","t">> (* flight *)) \/ Includes(q, <<"a","i","r","p","o","r","t">> (* airport *))
  \/ Includes(q, <<"t","r","a","v","e","l">> (* travel *)) \/ Includes(q, <<"h","o","t","e","l">> (* hotel *))
  \/ OptSep(q, <<"c","h","e","c","k">> (* check *), <<"i","n">> (* in *)) \/ OptSep(q, <<"c","h","e","c","k">> (* check *), <<"o","u","t">> (* out *))

\* /merch|merchandise|t[- ]?shirts?|hoodies?|seller|stand/
ReMerch(q) ==
  \/ Includes(q, <<"m","e","r","c","h">> (* merch *)) \/ Includes(q, <<"m","e","r","c","h","a","n","d","i","s","e">> (* merchandise *))
  \/ OptSep(q, <<"t">>, <<"s","h","i","r","t">> (* shirt *))
  \/ Includes(q, <<"h","o","o","d","i","e">> (* hoodie *)) \/ Includes(q, <<"s","e","l","l","e","r">> (* seller *)) \/ Includes(q, <<"s","t","a","n","d">> (* stand *))

\* /budget|costs?|expenses?|financial|accounting|invoice|payment/
ReFinancial(q) ==
  \/ Includes(q, <<"b","u","d","g","e","t">> (* budget *)) \/ Includes(q, <<"c","o","s","t">> (* cost *)) \/ Includes(q, <<"e","x","p","e","n","s","e">> (* expense *))
  \/ Includes(q, <<"f","i","n","a","n","c","i","a","l">> (* financial *)) \/ Includes(q, <<"a","c","c","o","u","n","t","i","n","g">> (* accounting *))
  \/ Includes(q, <<"i","n","v","o","i","c","e">> (* invoice *)) \/ Includes(q, <<"p","a","y","m","e","n","t">> (* payment *))

\* /press|media|interview|photographer|photo\s?pass|press commitments?/
ReMedia(q) ==
  \/ Includes(q, <<"p","r","e","s","s">> (* press *)) \/ Includes(q, <<"m","e","d","i","a">> (* media *))
  \/ Includes(q, <<"i","n","t","e","r","v","i","e","w">> (* interview *)) \/ Includes(q, <<"p","h","o","t","o","g","r","a","p","h","e","r">> (* photographer *))
  \/ Includes(q, <<"p","h","o","t","o","p","a","s","s">> (* photopass *))
  \/ \E c \in {" ", "\t", "\n", "\r"} : Includes(q, <<"p","h","o","t","o">> (* photo *) \o <<c>> \o <<"p","a","s","s">> (* pass *))
  \/ Includes(q, <<"p","r","e","s","s"," ","c","o","m","m","i","t","m","e","n","t">> (* press commitment *))

\* /^(help|what can i ask|what can you do)/
ReHelp(q) ==
  StartsWith(q, <<"h","e","l","p">> (* help *)) \/ StartsWith(q, <<"w","h","a","t"," ","c","a","n"," ","i"," ","a","s","k">> (* what can i ask *)) \/ StartsWith(q, <<"w","h","a","t"," ","c","a","n"," ","y","o","u"," ","d","o">> (* what can you do *))

\* Confidence is kept in hundredths: 95 is 0.95, 100 is 1.0.
\* The JavaScript null of intent_type is the tag "null".
Intent(type, conf) == [intent_type |-> type, confidence |-> conf, entities |-> <<>>]

\* RuleChain with the production rule tested before the schedule rule
RuleChain_productionFirst(q) ==
  IF ReProduction(q) THEN
    [intent |-> Intent("production", 90), consulted |-> <<"production">>]
  ELSE IF ReSchedule(q) THEN
    [intent |-> Intent("show_schedule", 95), consulted |-> <<"production", "show_schedule">>]
  ELSE IF ReTravel(q) THEN
    [intent |-> Intent("travel", 90),
     consulted |-> <<"production", "show_schedule", "travel">>]
  ELSE IF ReMerch(q) THEN
    [intent |-> Intent("merch", 90),
     consulted |-> <<"production", "show_schedule", "travel", "merch">>]
  ELSE IF ReFinancial(q) THEN
    [intent |-> Intent("financial", 90),
     consulted |-> <<"production", "show_schedule", "travel", "merch", "financial">>]
  ELSE IF ReMedia(q) THEN
    [intent |-> Intent("media", 90),
     consulted |-> <<"production", "show_schedule", "travel", "merch", "financial", "media">>]
  ELSE IF ReHelp(q) THEN
    [intent |-> Intent("help", 99),
     consulted |-> <<"production", "show_schedule", "travel", "merch", "financial", "media",
                     "help">>]
  ELSE
    [intent |-> Intent("null", 0),
     consulted |-> <<"production", "show_schedule", "travel", "merch", "financial", "media",
                     "help">>]

\* lines 29-57: the if / else-if chain over the cleaned lowercase text; the
\* result carries the rules whose pattern was tested, in order
RuleChain(q) ==
  IF ReSchedule(q) THEN
    [intent |-> Intent("show_schedule", 95), consulted |-> <<"show_schedule">>]
  ELSE IF ReProduction(q) THEN
    [intent |-> Intent("production", 90), consulted |-> <<"show_schedule", "production">>]
  ELSE IF ReTravel(q) THEN
    [intent |-> Intent("travel", 90),
     consulted |-> <<"show_schedule", "production", "travel">>]
  ELSE IF ReMerch(q) THEN
    [intent |-> Intent("merch", 90),
     consulted |-> <<"show_schedule", "production", "travel", "merch">>]
  ELSE IF ReFinancial(q) THEN
    [intent |-> Intent("financial", 90),
     consulted |-> <<"show_schedule", "production", "travel", "merch", "financial">>]
  ELSE IF ReMedia(q) THEN
    [intent |-> Intent("media", 90),
     consulted |-> <<"show_schedule", "production", "travel", "merch", "financial", "media">>]
  ELSE IF ReHelp(q) THEN
    [intent |-> Intent("help", 99),
     consulted |-> <<"show_schedule", "production", "travel", "merch", "financial", "media",
                     "help">>]
  ELSE
    [intent |-> Intent("null", 0),
     consulted |-> <<"show_schedule", "production", "travel", "merch", "financial", "media",
                     "help">>]

\* The steps of matchIntent that run code of other modules and may throw.
\* A regular expression tested on a string cannot throw, so no fault is
\* drawn inside the try block.
Faults == {"none", "cleanName", "normalize", "lookup"}

Rejected(content, fault) ==
  [content |-> content, fault |-> fault, hit |-> None, consulted |-> <<>>,
   out |-> [kind |-> "rejected", at |-> fault]]

\* matchIntent with the keyword rules tried before the term index: the fast
\* path is taken only when no rule matched
matchIntent_rulesFirst(content, fault, index) ==
  IF fault # "none" THEN Rejected(content, fault)
  ELSE
    LET q == toLowerCase(cleanName(content))
        _norm == normalize(content)
        exact == lookupExact(index, _norm)
        _hit == IF exact # None THEN exact ELSE lookupInSentence(index, _norm)
    IN IF RuleChain(q).intent.intent_type # "null" \/ _hit = None
         THEN [content |-> content, fault |-> fault, hit |-> _hit,
               consulted |-> RuleChain(q).consulted,
               out |-> [kind |-> "resolved", intent |-> RuleChain(q).intent]]
         ELSE [content |-> content, fault |-> fault, hit |-> _hit,
               consulted |-> RuleChain(q).consulted,
               out |-> [kind |-> "resolved",
                        intent |-> [intent_type |-> "term_lookup",
                                    term_id |-> _hit[1].term_id,
                                    entities |-> <<>>]]]

\* TmIntentMatcher.matchIntent: an async function, so a throw outside the try
\* block rejects the returned promise
matchIntent(content, fault, index) ==
  IF fault = "cleanName" THEN Rejected(content, fault)
  ELSE
    LET q == toLowerCase(cleanName(content))
    IN IF fault = "normalize" THEN Rejected(content, fault)
       ELSE
         LET _norm == normalize(content)
         IN IF fault = "lookup" THEN Rejected(content, fault)
            ELSE
              LET exact == lookupExact(index, _norm)
                  _hit == IF exact # None THEN exact ELSE lookupInSentence(index, _norm)
              IN IF _hit # None
                   THEN [content |-> content, fault |-> fault, hit |-> _hit,
                         consulted |-> <<>>,
                         out |-> [kind |-> "resolved",
                                  intent |-> [intent_type |-> "term_lookup",
                                              term_id |-> _hit[1].term_id,
                                              entities |-> <<>>]]]
                   ELSE [content |-> content, fault |-> fault, hit |-> None,
                         consulted |-> RuleChain(q).consulted,
                         out |-> [kind |-> "resolved", intent |-> RuleChain(q).intent]]

\* The messages classified and the vocabularies of the term index.
Messages ==
  { <<"h","e","l","p">> (* help *), <<" "," ","H","E","L","P"," ","m","e">> (*   HELP me *), <<"w","h","a","t"," ","c","a","n"," ","y","o","u"," ","d","o">> (* what can you do *), <<"p","l","e","a","s","e"," ","h","e","l","p">> (* please help *), <<"h","e","l","l","o">> (* hello *), <<>>,
    <<"w","h","a","t"," ","i","s"," ","t","h","e"," ","s","c","h","e","d","u","l","e">> (* what is the schedule *), <<"W","h","a","t"," ","t","i","m","e"," ","i","s"," ","t","h","e"," ","s","h","o","w","?">> (* What time is the show? *), <<"s","o","u","n","d","c","h","e","c","k"," ","s","c","h","e","d","u","l","e">> (* soundcheck schedule *),
    <<"w","h","e","n"," ","i","s"," ","s","o","u","n","d","c","h","e","c","k">> (* when is soundcheck *), <<"s","o","u","n","d","-","c","h","e","c","k">> (* sound-check *), <<"c","u","r","f","e","w">> (* curfew *), <<"s","h","o","w","t","i","m","e">> (* showtime *),
    <<"W","h","a","t"," ","i","s"," ","s","h","o","w","t","i","m","e","?">> (* What is showtime? *), <<"f","l","i","g","h","t"," ","t","o"," ","s","y","d","n","e","y">> (* flight to sydney *), <<"h","o","t","e","l"," ","c","h","e","c","k","-","i","n">> (* hotel check-in *), <<"m","e","r","c","h"," ","s","t","a","n","d">> (* merch stand *),
    <<"t","-","s","h","i","r","t"," ","c","o","s","t","s">> (* t-shirt costs *), <<"b","u","d","g","e","t">> (* budget *), <<"p","r","e","s","s"," ","i","n","t","e","r","v","i","e","w">> (* press interview *), <<"p","h","o","t","o"," ","p","a","s","s">> (* photo pass *), <<"l","o","a","d"," ","i","n"," ","t","i","m","e">> (* load in time *),
    <<"S","c","h","e","d","u","l","e">> (* Schedule *) }

TermIndexes ==
  { <<>>, <<<<"s","h","o","w","t","i","m","e">> (* showtime *), <<"c","u","r","f","e","w">> (* curfew *)>>, <<<<"s","c","h","e","d","u","l","e">> (* schedule *), <<"s","o","u","n","d","c","h","e","c","k">> (* soundcheck *), <<"l","o","a","d"," ","i","n">> (* load in *)>> }

MiIdle ==
  [content |-> <<>>, fault |-> "none", hit |-> None, consulted |-> <<>>,
   out |-> [kind |-> "idle"]]

\* no call made yet
Idle == [phase |-> "idle"]
CallsIdle == tz = Idle /\ ff = Idle /\ pm = Idle /\ rd = Idle /\ fu = Idle /\ req = Idle /\ rt = Idle

\* the engine as constructed and not loading, with empty data sources
EngineIdle == industryTerms = <<>> /\ cities = <<>> /\ loading = {}
DataIdle ==
  /\ shows = [ok |-> TRUE, rows |-> <<>>]
  /\ answers = [ok |-> TRUE, defs |-> <<>>]
  /\ flights = None
  /\ nowUtc = 0

InitIntent ==
  /\ termIndex \in TermIndexes
  /\ mi = MiIdle
  /\ hourCycle = "h23"
  /\ CallsIdle /\ EngineIdle /\ DataIdle

MatchIntent ==
  /\ \E content \in Messages : \E fault \in Faults :
       mi' = matchIntent(content, fault, termIndex)
  /\ UNCHANGED <<termIndex, hourCycle, engineVars, dataVars, callVars>>

NextIntent == MatchIntent

SpecIntent == InitIntent /\ [][NextIntent]_vars

----------------------------------------------------------------------------
(* Claims about matchIntent, checked under SpecIntent *)

\* what the term index answers for a message: the exact entry, else the
\* first entry found in the sentence
FastPathHit(index, content) ==
  IF lookupExact(index, normalize(content)) # None
    THEN lookupExact(index, normalize(content))
    ELSE lookupInSentence(index, normalize(content))

\* the call went through the lookups (none of the steps before the try block threw)
LookupsDone == mi.out.kind # "idle" /\ mi.fault = "none"

\* C1: whenever the lookups of a call give an exact or an in-sentence hit,
\* matchIntent returns intent_type "term_lookup" with the hit's term_id and
\* no keyword rule has been consulted, whatever rule the message matches.
C1_FastPathPrecedence ==
  (LookupsDone /\ FastPathHit(termIndex, mi.content) # None) =>
    /\ mi.out.kind = "resolved"
    /\ mi.out.intent.intent_type = "term_lookup"
    /\ mi.out.intent.term_id = FastPathHit(termIndex, mi.content)[1].term_id
    /\ mi.consulted = <<>>

\* a fast-path hit on a message that the schedule rule matches too
C1_Witness ==
  /\ LookupsDone
  /\ FastPathHit(termIndex, mi.content) # None
  /\ ReSchedule(toLowerCase(cleanName(mi.content)))
  /\ mi.out.kind = "resolved"
  /\ mi.out.intent.intent_type = "term_lookup"

\* C2: every Intent returned carries a confidence in [0,1] (0..100
\* hundredths), and on a fast-path hit the confidence is exactly 1.0.
C2_ConfidenceOnEveryPath ==
  mi.out.kind = "resolved" =>
    /\ "confidence" \in DOMAIN mi.out.intent
    /\ mi.out.intent.confidence \in 0..100
    /\ (mi.hit # None => mi.out.intent.confidence = 100)

\* the rules in their fixed order, with the pattern and the confidence of each
RuleOrder ==
  <<"show_schedule", "production", "travel", "merch", "financial", "media", "help">>

RulePattern(name, q) ==
  CASE name = "show_schedule" -> ReSchedule(q)
    [] name = "production" -> ReProduction(q)
    [] name = "travel" -> ReTravel(q)
    [] name = "merch" -> ReMerch(q)
    [] name = "financial" -> ReFinancial(q)
    [] name = "media" -> ReMedia(q)
    [] name = "help" -> ReHelp(q)

RuleConfidence(name) ==
  IF name = "show_schedule" THEN 95 ELSE IF name = "help" THEN 99 ELSE 90

MatchingRules(q) == {i \in 1..Len(RuleOrder) : RulePattern(RuleOrder[i], q)}

\* C3: with no fast-path hit, matchIntent returns the intent of the first
\* rule in the fixed order whose pattern matches the cleaned lowercase text,
\* with that rule's confidence; a text matching no rule gets intent_type null
\* with confidence 0; the message "help" gets help with confidence 0.99.
C3_FirstRuleWins ==
  (LookupsDone /\ FastPathHit(termIndex, mi.content) = None) =>
    LET q == toLowerCase(cleanName(mi.content))
        first == CHOOSE i \in MatchingRules(q) : \A j \in MatchingRules(q) : i <= j
    IN /\ mi.out.kind = "resolved"
       /\ "confidence" \in DOMAIN mi.out.intent
       /\ IF MatchingRules(q) = {}
            THEN mi.out.intent.intent_type = "null" /\ mi.out.intent.confidence = 0
            ELSE /\ mi.out.intent.intent_type = RuleOrder[first]
                 /\ mi.out.intent.confidence = RuleConfidence(RuleOrder[first])
       /\ (mi.content = <<"h","e","l","p">> (* help *) =>
             mi.out.intent.intent_type = "help" /\ mi.out.intent.confidence = 99)

\* a text that matches more than one rule and gets the earliest
C3_Witness ==
  /\ LookupsDone
  /\ FastPathHit(termIndex, mi.content) = None
  /\ Cardinality(MatchingRules(toLowerCase(cleanName(mi.content)))) >= 2
  /\ mi.out.kind = "resolved"
  /\ mi.out.intent.intent_type = "show_schedule"

\* C4: matchIntent never raises to its caller: every call completes with an
\* Intent value, whichever step throws.
C4_NeverRaises == mi.out.kind # "rejected"

----------------------------------------------------------------------------
(* The timezone converter of formatUpcomingFlights *)

\* Instants are whole seconds since the epoch: every instant the converter
\* handles is a multiple of 1000 ms (Date.UTC of whole seconds, offsets of
\* whole minutes), and seconds keep the arithmetic within TLC's integers.

\* days from 1970-01-01 to the civil date (proleptic Gregorian), M in 1..12
DaysFromCivil(Y, M, D) ==
  LET y == IF M <= 2 THEN Y - 1 ELSE Y
      era == y \div 400
      yoe == y - era * 400
      mp == IF M > 2 THEN M - 3 ELSE M + 9
      doy == (153 * mp + 2) \div 5 + D - 1
      doe == yoe * 365 + yoe \div 4 - yoe \div 100 + doy
  IN era * 146097 + doe - 719468

\* the civil date of a day number
CivilFromDays(days) ==
  LET z == days + 719468
      era == z \div 146097
      doe == z - era * 146097
      yoe == (doe - doe \div 1460 + doe \div 36524 - doe \div 146096) \div 365
      doy == doe - (365 * yoe + yoe \div 4 - yoe \div 100)
      mp == (5 * doy + 2) \div 153
      d == doy - (153 * mp + 2) \div 5 + 1
      m == IF mp < 10 THEN mp + 3 ELSE mp - 9
  IN [year |-> IF m <= 2 THEN yoe + era * 400 + 1 ELSE yoe + era * 400,
      month |-> m, day |-> d]

\* Date.UTC(Y, M - 1, D, h, m, s), in seconds; fields out of range carry over
DateUTC(Y, M, D, h, m, s) == DaysFromCivil(Y, M, D) * 86400 + h * 3600 + m * 60 + s

\* the wall-clock fields of an instant shifted by an offset
CivilFields(sec) ==
  With(CivilFromDays(sec \div 86400), LAMBDA date :
    [year |-> date.year, month |-> date.month, day |-> date.day,
     hour |-> (sec % 86400) \div 3600, minute |-> (sec % 3600) \div 60,
     second |-> sec % 60])

\* The IANA zones the runtime knows here, with their rules for 2025.
Zones ==
  { <<"A","u","s","t","r","a","l","i","a","/","S","y","d","n","e","y">> (* Australia/Sydney *), <<"A","u","s","t","r","a","l","i","a","/","L","o","r","d","_","H","o","w","e">> (* Australia/Lord_Howe *), <<"A","m","e","r","i","c","a","/","N","e","w","_","Y","o","r","k">> (* America/New_York *), <<"U","T","C">> (* UTC *) }

\* the UTC offset, in seconds, of a zone at an instant (time-zone database)
ZoneOffset(zone, sec) ==
  CASE zone = <<"A","u","s","t","r","a","l","i","a","/","S","y","d","n","e","y">> (* Australia/Sydney *) ->
         IF sec < DateUTC(2025, 4, 5, 16, 0, 0) \/ sec >= DateUTC(2025, 10, 4, 16, 0, 0)
           THEN 11 * 3600 ELSE 10 * 3600
    [] zone = <<"A","u","s","t","r","a","l","i","a","/","L","o","r","d","_","H","o","w","e">> (* Australia/Lord_Howe *) ->
         IF sec < DateUTC(2025, 4, 5, 15, 0, 0) \/ sec >= DateUTC(2025, 10, 4, 15, 30, 0)
           THEN 11 * 3600 ELSE 10 * 3600 + 1800
    [] zone = <<"A","m","e","r","i","c","a","/","N","e","w","_","Y","o","r","k">> (* America/New_York *) ->
         IF sec >= DateUTC(2025, 3, 9, 7, 0, 0) /\ sec < DateUTC(2025, 11, 2, 6, 0, 0)
           THEN -(4 * 3600) ELSE -(5 * 3600)
    [] zone = <<"U","T","C">> (* UTC *) -> 0

\* What hour12: false resolves to for en-CA depends on the runtime: "h23"
\* prints midnight as hour 00, "h24" prints it as hour 24 of the same date.
HourCycles == {"h23", "h24"}

\* fmt.formatToParts(d) of the en-CA formatter of getOffsetMinutesAt
formatToParts(sec, zone, hc) ==
  With(CivilFields(sec + ZoneOffset(zone, sec)), LAMBDA f :
    [f EXCEPT !.hour = IF hc = "h24" /\ f.hour = 0 THEN 24 ELSE f.hour])

\* getOffsetMinutesAt(utcMs, tz): throws a RangeError for an unknown zone
getOffsetMinutesAt(sec, zone, hc) ==
  IF zone \notin Zones THEN None
  ELSE
    With(formatToParts(sec, zone, hc), LAMBDA parts :
      LET asUTC == DateUTC(parts.year, parts.month, parts.day,
                           parts.hour, parts.minute, parts.second)
      IN Some((asUTC - sec) \div 60))

\* s.slice(a, b) with 0 <= a <= b
slice(s, a, b) ==
  SubSeq(s, a + 1, IF b < Len(s) THEN b ELSE Len(s))

DigitValue(c) == (CHOOSE i \in 1..Len(DigitChars) : DigitChars[i] = c) - 1

RECURSIVE DigitsValue(_)
DigitsValue(s) ==
  IF s = <<>> THEN 0
  ELSE 10 * DigitsValue(SubSeq(s, 1, Len(s) - 1)) + DigitValue(s[Len(s)])

\* unary plus on a string of decimal digits; "" is 0 and anything else drawn
\* here is NaN (None)
ToNumber(s) ==
  IF \A i \in 1..Len(s) : s[i] \in Range(DigitChars) THEN Some(DigitsValue(s)) ELSE None

OrZero(s) == IF s = <<>> THEN <<"0">> ELSE s

\* zonedLocalToEpochMs(localIso, tz): the instant, or None when it throws
\* (an unknown zone, or a NaN date handed to formatToParts)
zonedLocalToEpochMs(localIso, zone, hc) ==
  LET Y == ToNumber(slice(localIso, 0, 4))
      M == ToNumber(slice(localIso, 5, 7))
      D == ToNumber(slice(localIso, 8, 10))
      h == ToNumber(OrZero(slice(localIso, 11, 13)))
      m == ToNumber(OrZero(slice(localIso, 14, 16)))
      s == ToNumber(OrZero(slice(localIso, 17, 19)))
  IN IF zone \notin Zones \/ None \in {Y, M, D, h, m, s} THEN None
     ELSE
       With(DateUTC(Y[1], M[1], D[1], h[1], m[1], s[1]), LAMBDA base :
         With(base - getOffsetMinutesAt(base, zone, hc)[1] * 60, LAMBDA guess :
           Some(base - getOffsetMinutesAt(guess, zone, hc)[1] * 60)))

\* two decimal digits, four decimal digits
Pad2(n) == <<DigitChars[(n \div 10) + 1], DigitChars[(n % 10) + 1]>>
Pad4(n) == Pad2(n \div 100) \o Pad2(n % 100)

\* the naive local timestamp YYYY-MM-DDTHH:MM[:SS] of wall-clock fields
LocalIso(f, withSeconds) ==
  Pad4(f.year) \o <<"-">> \o Pad2(f.month) \o <<"-">> \o Pad2(f.day) \o <<"T">>
    \o Pad2(f.hour) \o <<":">> \o Pad2(f.minute)
    \o (IF withSeconds THEN <<":">> \o Pad2(f.second) ELSE <<>>)

\* The dates converted: the days of the 2025 transitions of the zones, the
\* days next to them, and days far from any transition.
TzDates ==
  { <<2025, 1, 1>>, <<2025, 3, 8>>, <<2025, 3, 9>>, <<2025, 4, 5>>, <<2025, 4, 6>>,
    <<2025, 6, 15>>, <<2025, 10, 4>>, <<2025, 10, 5>>, <<2025, 11, 2>>, <<2025, 12, 31>> }

TzMinutes == {0, 30}
TzSeconds == {0, 59}

WallClocks ==
  { [year |-> d[1], month |-> d[2], day |-> d[3], hour |-> h, minute |-> m, second |-> s] :
      d \in TzDates, h \in 0..23, m \in TzMinutes, s \in TzSeconds }

IntentIdle == termIndex = <<>> /\ mi = MiIdle

InitTz ==
  /\ hourCycle \in HourCycles
  /\ IntentIdle /\ CallsIdle /\ EngineIdle /\ DataIdle

\* one call of zonedLocalToEpochMs on a well-formed timestamp; a timestamp
\* written without seconds has second 0
Convert ==
  /\ tz.phase = "idle"
  /\ \E f \in WallClocks : \E zone \in Zones : \E withSeconds \in BOOLEAN :
       /\ (~withSeconds => f.second = 0)
       /\ tz' = [phase |-> "done", t |-> f, localIso |-> LocalIso(f, withSeconds),
                 zone |-> zone,
                 out |-> zonedLocalToEpochMs(LocalIso(f, withSeconds), zone, hourCycle)]
  /\ UNCHANGED <<intentVars, hourCycle, engineVars, dataVars, ff, pm, rd, fu, req, rt>>

NextTz == Convert

SpecTz == InitTz /\ [][NextTz]_vars

----------------------------------------------------------------------------
(* Claims about the timezone converter, checked under SpecTz *)

\* the wall-clock fields a zone shows at an instant
WallClockAt(sec, zone) == CivilFields(sec + ZoneOffset(zone, sec))

\* the instants at which a zone shows the wall-clock fields f
InstantsShowing(f, zone) ==
  LET base == DateUTC(f.year, f.month, f.day, f.hour, f.minute, f.second)
  IN {base - o * 1800 : o \in {k \in -48..48 : WallClockAt(base - k * 1800, zone) = f}}

\* C6: the instant zonedLocalToEpochMs(t, z) returns, converted back to
\* wall-clock time in z, reproduces year, month, day, hour, minute and
\* second of t, also on a day on which the offset of z changes.
C6_RoundTrip ==
  tz.phase = "done" =>
    /\ tz.out # None
    /\ WallClockAt(tz.out[1], tz.zone) = tz.t

\* C19: for a wall-clock time that exists in the zone, zonedLocalToEpochMs
\* returns base - offset(base - offset(base)), base being the fields read as
\* UTC and offset the zone's offset at an instant, and the zone's offset at
\* the returned instant is the offset that was subtracted.
C19_TwoPassCorrect ==
  (tz.phase = "done" /\ InstantsShowing(tz.t, tz.zone) # {}) =>
    LET base == DateUTC(tz.t.year, tz.t.month, tz.t.day, tz.t.hour, tz.t.minute, tz.t.second)
        guess == base - ZoneOffset(tz.zone, base)
    IN /\ tz.out # None
       /\ tz.out[1] = base - ZoneOffset(tz.zone, guess)
       /\ ZoneOffset(tz.zone, tz.out[1]) = base - tz.out[1]

----------------------------------------------------------------------------
(* The field resolver: TmAiEngine.findFieldForTerm *)

\* A show record is the sequence of its [k, val] entries in Object.keys
\* order; val is None for null/undefined and Some(text) for a string.

\* norm = s => String(s).toLowerCase().replace(/[^a-z0-9]/g, '')
norm(s) == KeepAlnum(toLowerCase(s))

\* /time$|time\b/.test(k)
ReTimeKey(k) ==
  \/ EndsWith(k, <<"t","i","m","e">> (* time *))
  \/ \E i \in 1..Len(k) : OccursAt(k, <<"t","i","m","e">> (* time *), i) /\ WordBoundary(k, i + 4)

isTimeKey(k) ==
  ReTimeKey(k) \/ EndsWith(norm(k), <<"t","i","m","e">> (* time *)) \/ Includes(norm(k), <<"t","i","m","e">> (* time *))

isVenueKey(k) ==
  \E v \in {<<"v","e","n","u","e">> (* venue *), <<"v","e","n","u","e","_","n","a","m","e">> (* venue_name *), <<"a","d","d","r","e","s","s">> (* address *), <<"l","o","c","a","t","i","o","n">> (* location *)} : Includes(norm(k), norm(v))

isCityKey(k) == norm(k) = <<"c","i","t","y">> (* city *) \/ EndsWith(norm(k), <<"c","i","t","y">> (* city *))
isStateKey(k) == norm(k) = <<"s","t","a","t","e">> (* state *) \/ norm(k) = <<"r","e","g","i","o","n">> (* region *)
isCountryKey(k) == norm(k) = <<"c","o","u","n","t","r","y">> (* country *)

V_what_time_is == <<"w","h","a","t"," ","t","i","m","e"," ","i","s">> (* what time is *)
V_when_is == <<"w","h","e","n"," ","i","s">> (* when is *)
V_where_is == <<"w","h","e","r","e"," ","i","s">> (* where is *)

\* the score without the bonus of a time-like key
KeyScore_noTimeBonus(k, term, verb) ==
  LET mentions == Includes(norm(k), norm(term))
      locationLike == verb = Some(V_where_is)
      timeLike == verb = Some(V_what_time_is) \/ verb = Some(V_when_is)
  IN (IF mentions THEN 5 ELSE 0)
     + (IF locationLike /\ (isVenueKey(k) \/ isCityKey(k) \/ isStateKey(k) \/ isCountryKey(k))
          THEN 4 ELSE 0)
     + (IF timeLike /\ isTimeKey(k) THEN 4 ELSE 0)

\* lines 227-239: the score of one key for a term and a verb (verb is nullable)
KeyScore(k, term, verb) ==
  LET mentions == Includes(norm(k), norm(term))
      locationLike == verb = Some(V_where_is)
      timeLike == verb = Some(V_what_time_is) \/ verb = Some(V_when_is)
  IN (IF mentions THEN 5 ELSE 0)
     + (IF isTimeKey(k) THEN 3 ELSE 0)
     + (IF locationLike /\ (isVenueKey(k) \/ isCityKey(k) \/ isStateKey(k) \/ isCountryKey(k))
          THEN 4 ELSE 0)
     + (IF timeLike /\ isTimeKey(k) THEN 4 ELSE 0)

\* val != null && String(val).trim() !== ''
NonBlank(val) == val # None /\ trim(val[1]) # <<>>

\* show[p] of a key, None when the record has no such key
Get(show, p) ==
  IF \E i \in 1..Len(show) : show[i].k = p
    THEN show[CHOOSE i \in 1..Len(show) : show[i].k = p].val
    ELSE None

\* Scored keeping only the keys that mention the term
Scored_mentionsOnly(show, term, verb) ==
  LET keep(e) == NonBlank(e.val) /\ KeyScore(e.k, term, None) >= 5
      kept == SelectSeq(show, keep)
  IN [i \in 1..Len(kept) |->
        [k |-> kept[i].k, score |-> KeyScore(kept[i].k, term, verb), val |-> kept[i].val[1]]]

\* lines 214-246: the entries kept, in key order
Scored(show, term, verb) ==
  LET keep(e) == NonBlank(e.val) /\ KeyScore(e.k, term, verb) > 0
      kept == SelectSeq(show, keep)
  IN [i \in 1..Len(kept) |->
        [k |-> kept[i].k, score |-> KeyScore(kept[i].k, term, verb), val |-> kept[i].val[1]]]

\* the last entry of the highest score in key order
TopScored_last(scored) ==
  scored[CHOOSE i \in 1..Len(scored) :
           /\ \A j \in 1..Len(scored) : scored[j].score <= scored[i].score
           /\ \A j \in (i + 1)..Len(scored) : scored[j].score < scored[i].score]

\* scored.sort((a, b) => b.score - a.score)[0]: the sort is stable, so the
\* first entry of the highest score in key order
TopScored(scored) ==
  scored[CHOOSE i \in 1..Len(scored) :
           /\ \A j \in 1..Len(scored) : scored[j].score <= scored[i].score
           /\ \A j \in 1..(i - 1) : scored[j].score < scored[i].score]

prefs == <<<<"s","o","u","n","d","c","h","e","c","k","_","t","i","m","e">> (* soundcheck_time *), <<"l","o","a","d","_","i","n","_","t","i","m","e">> (* load_in_time *), <<"d","o","o","r","s","_","t","i","m","e">> (* doors_time *), <<"s","h","o","w","_","t","i","m","e">> (* show_time *)>>

\* lines 248-259: hasOwnProperty(show, p) && String(show[p] || "").trim() !== ""
PrefPresent(show, p) ==
  /\ \E i \in 1..Len(show) : show[i].k = p
  /\ Get(show, p) # None
  /\ trim(Get(show, p)[1]) # <<>>

\* findFieldForTerm without the test on the value: every key of positive
\* score is a candidate
findFieldForTerm_anyValue(show, term, verb) ==
  IF show = None \/ term = None \/ term = Some(<<>>) THEN None
  ELSE
    LET all == [i \in 1..Len(show[1]) |->
                  [k |-> show[1][i].k, score |-> KeyScore(show[1][i].k, term[1], verb),
                   val |-> IF show[1][i].val = None THEN <<>> ELSE show[1][i].val[1]]]
        positive(e) == e.score > 0
        scored == SelectSeq(all, positive)
    IN IF scored = <<>> THEN None ELSE Some(TopScored(scored))

\* findFieldForTerm({ show, term, verb }); show and term are nullable, and
\* an empty term is falsy
findFieldForTerm(show, term, verb) ==
  IF show = None \/ term = None \/ term = Some(<<>>) THEN None
  ELSE
    LET scored == Scored(show[1], term[1], verb)
        timeLike == verb = Some(V_what_time_is) \/ verb = Some(V_when_is)
    IN IF scored = <<>>
         THEN IF timeLike /\ \E i \in 1..Len(prefs) : PrefPresent(show[1], prefs[i])
                THEN LET i == CHOOSE j \in 1..Len(prefs) :
                                /\ PrefPresent(show[1], prefs[j])
                                /\ \A l \in 1..(j - 1) : ~PrefPresent(show[1], prefs[l])
                     IN Some([k |-> prefs[i], score |-> 1, val |-> Get(show[1], prefs[i])[1]])
                ELSE None
         ELSE Some(TopScored(scored))

\* The records, terms and verbs the resolver is applied to.
MaxKeys == 2

FieldKeys ==
  { <<"s","o","u","n","d","c","h","e","c","k","_","t","i","m","e">> (* soundcheck_time *),
    <<"s","h","o","w","_","t","i","m","e">> (* show_time *),
    <<"v","e","n","u","e","_","n","a","m","e">> (* venue_name *),
    <<"c","i","t","y">> (* city *),
    <<"s","o","u","n","d","c","h","e","c","k","_","n","o","t","e","s">> (* soundcheck_notes *) }

FieldValues == { None, Some(<<>>), Some(<<" "," ">> (*    *)), Some(<<"1","6",":","0","0">> (* 16:00 *)) }

FieldEntries == [k : FieldKeys, val : FieldValues]

\* the records of at most MaxKeys keys, no key twice
ShowRecords ==
  UNION { { r \in [1..n -> FieldEntries] :
              \A i \in 1..n : \A j \in 1..n : (r[i].k = r[j].k) => (i = j) } :
          n \in 0..MaxKeys }

FieldTerms ==
  { None, Some(<<>>), Some(<<"s","o","u","n","d","c","h","e","c","k">> (* soundcheck *)), Some(<<"S","o","u","n","d","-","C","h","e","c","k">> (* Sound-Check *)), Some(<<"s","h","o","w">> (* show *)) }

FieldVerbs == { None, Some(V_what_time_is), Some(V_where_is), Some(<<"w","h","a","t"," ","i","s">> (* what is *)) }

InitField ==
  /\ hourCycle = "h23"
  /\ IntentIdle /\ CallsIdle /\ EngineIdle /\ DataIdle

\* one call of findFieldForTerm
FindField ==
  /\ ff.phase = "idle"
  /\ \E show \in {None} \cup {Some(r) : r \in ShowRecords} :
       \E term \in FieldTerms : \E verb \in FieldVerbs :
         ff' = [phase |-> "done", show |-> show, term |-> term, verb |-> verb,
                out |-> findFieldForTerm(show, term, verb)]
  /\ UNCHANGED <<intentVars, hourCycle, engineVars, dataVars, tz, pm, rd, fu, req, rt>>

NextField == FindField

SpecField == InitField /\ [][NextField]_vars

\* The records the scoring is compared on: every key with a value or blank.
ScoreValues == { Some(<<>>), Some(<<"1","6",":","0","0">> (* 16:00 *)) }

ScoreRecords ==
  { r \in ShowRecords : \A i \in 1..Len(r) : r[i].val \in ScoreValues }

\* one call of findFieldForTerm on a record whose keys all have a string value
FindFieldOfStrings ==
  /\ ff.phase = "idle"
  /\ \E r \in ScoreRecords : \E term \in FieldTerms : \E verb \in FieldVerbs :
       ff' = [phase |-> "done", show |-> Some(r), term |-> term, verb |-> verb,
              out |-> findFieldForTerm(Some(r), term, verb)]
  /\ UNCHANGED <<intentVars, hourCycle, engineVars, dataVars, tz, pm, rd, fu, req, rt>>

NextScore == FindFieldOfStrings

SpecScore == InitField /\ [][NextScore]_vars

----------------------------------------------------------------------------
(* Claims about findFieldForTerm, checked under SpecField *)

\* C7: a result of findFieldForTerm names a key of the record, and its value
\* is the record's value for that key, which is neither absent, null nor
\* blank after trimming.
C7_NeverBlankField ==
  (ff.phase = "done" /\ ff.out # None) =>
    \E i \in 1..Len(ff.show[1]) :
      /\ ff.show[1][i].k = ff.out[1].k
      /\ ff.show[1][i].val # None
      /\ ff.show[1][i].val[1] = ff.out[1].val
      /\ trim(ff.out[1].val) # <<>>

\* a field is returned although a key of a higher score has a blank value
C7_Witness ==
  /\ ff.phase = "done"
  /\ ff.out # None
  /\ \E i \in 1..Len(ff.show[1]) :
       /\ ~NonBlank(ff.show[1][i].val)
       /\ KeyScore(ff.show[1][i].k, ff.term[1], ff.verb) > ff.out[1].score

\* the keys of the record that are candidates: value not blank, score positive
CandidateKeys ==
  {i \in 1..Len(ff.show[1]) :
     /\ NonBlank(ff.show[1][i].val)
     /\ KeyScore(ff.show[1][i].k, ff.term[1], ff.verb) > 0}

ScoreOfKey(i) == KeyScore(ff.show[1][i].k, ff.term[1], ff.verb)

\* a call that had candidates to choose from
ChoseCandidate ==
  /\ ff.phase = "done" /\ ff.show # None /\ ff.term # None /\ ff.term # Some(<<>>)
  /\ CandidateKeys # {}

\* C20 (as stated): findFieldForTerm returns a candidate of the maximum
\* score, and among the candidates of that score the one scanned last in
\* the key order of the record.
C20_TieToLastScanned ==
  ChoseCandidate =>
    /\ ff.out # None
    /\ \E i \in CandidateKeys :
         /\ ff.show[1][i].k = ff.out[1].k /\ ff.out[1].score = ScoreOfKey(i)
         /\ \A j \in CandidateKeys : ScoreOfKey(j) <= ScoreOfKey(i)
         /\ \A j \in CandidateKeys : j > i => ScoreOfKey(j) < ScoreOfKey(i)

\* C20 (amended): findFieldForTerm returns a candidate of the maximum score,
\* and among the candidates of that score the one scanned first in the key
\* order of the record.
C20_TieToFirstScanned ==
  ChoseCandidate =>
    /\ ff.out # None
    /\ \E i \in CandidateKeys :
         /\ ff.show[1][i].k = ff.out[1].k /\ ff.out[1].score = ScoreOfKey(i)
         /\ \A j \in CandidateKeys : ScoreOfKey(j) <= ScoreOfKey(i)
         /\ \A j \in CandidateKeys : j < i => ScoreOfKey(j) < ScoreOfKey(i)

\* two candidates share the maximum score
C20_Witness ==
  /\ ChoseCandidate
  /\ \E i \in CandidateKeys : \E j \in CandidateKeys :
       /\ i < j /\ ScoreOfKey(i) = ScoreOfKey(j)
       /\ \A l \in CandidateKeys : ScoreOfKey(l) <= ScoreOfKey(i)
       /\ ff.out[1].k = ff.show[1][i].k

\* whether one of the preferred time fields is present and not blank
SomePrefPresent(show) == \E i \in 1..Len(prefs) : PrefPresent(show, prefs[i])

\* C30: every result of findFieldForTerm has a score of at least 3 and is a
\* key of the record of positive score with a value that is not blank: the
\* fallback of score 1 over soundcheck_time, load_in_time, doors_time and
\* show_time is never the result, since a record in which one of them is
\* present and not blank has a scored candidate.
C30_ScoreAtLeastThree ==
  (ff.phase = "done" /\ ff.out # None) =>
    /\ ff.out[1].score >= 3
    /\ ff.out[1].score = KeyScore(ff.out[1].k, ff.term[1], ff.verb)
    /\ Get(ff.show[1], ff.out[1].k) = Some(ff.out[1].val)
    /\ NonBlank(Some(ff.out[1].val))

\* a time-like verb, a record without a key that mentions the term and with
\* a preferred time field: the result is a scored candidate, not the fallback
C30_Witness ==
  /\ ff.phase = "done"
  /\ ff.verb = Some(V_what_time_is)
  /\ ff.term = Some(<<"s","h","o","w">> (* show *))
  /\ ff.show # None
  /\ SomePrefPresent(ff.show[1])
  /\ \A i \in 1..Len(ff.show[1]) : ff.show[1][i].k = <<"s","o","u","n","d","c","h","e","c","k","_","t","i","m","e">> (* soundcheck_time *)
  /\ ff.out # None
  /\ ff.out[1].score = 7

\* The scoring claim is checked under SpecScore.

\* the four bonus conditions of a key for a term and a verb
Conditions(k, term, verb) ==
  With(norm(k), LAMBDA nk :
    With(Includes(nk, <<"t","i","m","e">> (* time *)), LAMBDA timeKey :
      [mentions |-> Includes(nk, norm(term)),
       timeKey |-> timeKey,
       location |-> verb = Some(V_where_is)
                      /\ \/ \E v \in {<<"v","e","n","u","e">> (* venue *), <<"a","d","d","r","e","s","s">> (* address *), <<"l","o","c","a","t","i","o","n">> (* location *)} : Includes(nk, v)
                         \/ EndsWith(nk, <<"c","i","t","y">> (* city *))
                         \/ nk \in {<<"s","t","a","t","e">> (* state *), <<"r","e","g","i","o","n">> (* region *), <<"c","o","u","n","t","r","y">> (* country *)},
       timeVerb |-> verb \in {Some(V_what_time_is), Some(V_when_is)} /\ timeKey]))

\* the conditions of every key of a record, in key order
AllConditions(show, term, verb) ==
  AsTuple([i \in 1..Len(show) |-> Conditions(show[i].k, term, verb)])

Weighted(c) ==
  (IF c.mentions THEN 5 ELSE 0) + (IF c.timeKey THEN 3 ELSE 0)
    + (IF c.location THEN 4 ELSE 0) + (IF c.timeVerb THEN 4 ELSE 0)

\* no condition holds in c2 that does not hold in c1
NoMoreThan(c2, c1) ==
  /\ c2.mentions => c1.mentions
  /\ c2.timeKey => c1.timeKey
  /\ c2.location => c1.location
  /\ c2.timeVerb => c1.timeVerb

\* the score of the winning field of a call, 0 when nothing is returned
WinScore(out) == IF out = None THEN 0 ELSE out[1].score

Truthy(term) == term # None /\ term # Some(<<>>)

\* the records that differ from show in the name of the key at one position
Renamed(show) ==
  {[show EXCEPT ![i].k = k] : i \in 1..Len(show),
                              k \in {x \in FieldKeys : \A j \in 1..Len(show) : show[j].k # x}}

\* C21: the score of the returned field is 5 for a key that mentions the
\* term, plus 3 for a time-like key, plus 4 for a location verb on a
\* location-like key, plus 4 for a time verb on a time-like key; and for the
\* same record under another term or verb, or with a key renamed, such that
\* no key satisfies a condition it did not satisfy before, the score of the
\* winning field is not higher.
C21_ScoreMonotonic ==
  (ff.phase = "done" /\ ff.show # None /\ Truthy(ff.term)) =>
    With(AllConditions(ff.show[1], ff.term[1], ff.verb), LAMBDA before :
      /\ ff.out # None =>
           ff.out[1].score = Weighted(Conditions(ff.out[1].k, ff.term[1], ff.verb))
      /\ \A term2 \in {t \in FieldTerms : Truthy(t)} : \A verb2 \in FieldVerbs :
           With(AllConditions(ff.show[1], term2[1], verb2), LAMBDA after :
             (\A i \in 1..Len(before) : NoMoreThan(after[i], before[i]))
               => WinScore(findFieldForTerm(ff.show, term2, verb2)) <= WinScore(ff.out))
      /\ \A show2 \in Renamed(ff.show[1]) :
           With(AllConditions(show2, ff.term[1], ff.verb), LAMBDA after :
             (\A i \in 1..Len(before) : NoMoreThan(after[i], before[i]))
               => WinScore(findFieldForTerm(Some(show2), ff.term, ff.verb)) <= WinScore(ff.out)))

\* a field wins with a bonus for the term and for the verb, and under a
\* verb that takes the verb bonus away it wins with a lower score
C21_Witness ==
  /\ ff.phase = "done" /\ ff.show # None /\ Truthy(ff.term) /\ ff.out # None
  /\ ff.out[1].score = 12
  /\ ff.verb = Some(V_what_time_is)
  /\ WinScore(findFieldForTerm(ff.show, ff.term, None)) = 8

----------------------------------------------------------------------------
(* The flight scheduler: formatUpcomingFlights *)

\* A flight row is the record of the columns of one line of
\* travel_flights.csv, a missing or empty column being the empty string.
\* The options are [toCity, fromCity, city, userTz, nextOnly, todayOnly],
\* an option not given being the empty string or FALSE.

DefaultTz == <<"A","u","s","t","r","a","l","i","a","/","S","y","d","n","e","y">> (* Australia/Sydney *)

\* a || b on strings
OrElse(a, b) == IF a # <<>> THEN a ELSE b

\* lines 545-555: the rows with a departure_time, the departure zone
\* defaulting to opts.userTz, else to Australia/Sydney
FlightRows(lines, opts) ==
  LET hasTime(r) == r.departure_time # <<>>
      row(a) == [a EXCEPT !.departure_timezone =
                   OrElse(a.departure_timezone, OrElse(opts.userTz, DefaultTz))]
  IN SelectSeq([i \in 1..Len(lines) |-> row(lines[i])], hasTime)

\* line 579: whether the conversion of some row throws
ConversionThrows(rows, hc) ==
  \E i \in 1..Len(rows) :
    zonedLocalToEpochMs(rows[i].departure_time, rows[i].departure_timezone, hc) = None

\* line 579: every row with its departure instant
WithDepEpoch(rows, hc) ==
  AsTuple([i \in 1..Len(rows) |->
             [r |-> rows[i],
              depEpoch |-> zonedLocalToEpochMs(rows[i].departure_time,
                                               rows[i].departure_timezone, hc)[1]]])

\* CityFilter with the precedence fromCity over toCity
CityFilter_fromFirst(list, opts) ==
  LET to(x) == toLowerCase(x.r.arrival_city) = toLowerCase(opts.toCity)
      from(x) == toLowerCase(x.r.departure_city) = toLowerCase(opts.fromCity)
      either(x) == \/ toLowerCase(x.r.departure_city) = toLowerCase(opts.city)
                   \/ toLowerCase(x.r.arrival_city) = toLowerCase(opts.city)
  IN IF opts.fromCity # <<>> THEN SelectSeq(list, from)
     ELSE IF opts.toCity # <<>> THEN SelectSeq(list, to)
     ELSE IF opts.city # <<>> THEN SelectSeq(list, either)
     ELSE list

\* lines 581-593: the directional filter
CityFilter(list, opts) ==
  LET to(x) == toLowerCase(x.r.arrival_city) = toLowerCase(opts.toCity)
      from(x) == toLowerCase(x.r.departure_city) = toLowerCase(opts.fromCity)
      either(x) == \/ toLowerCase(x.r.departure_city) = toLowerCase(opts.city)
                   \/ toLowerCase(x.r.arrival_city) = toLowerCase(opts.city)
  IN IF opts.toCity # <<>> THEN SelectSeq(list, to)
     ELSE IF opts.fromCity # <<>> THEN SelectSeq(list, from)
     ELSE IF opts.city # <<>> THEN SelectSeq(list, either)
     ELSE list

\* line 595: list.filter(r => r.depEpoch >= nowUtc)
Upcoming(list, now) ==
  LET notPast(x) == x.depEpoch >= now
  IN SelectSeq(list, notPast)

\* SortByDep left out: the records stay in file order
SortByDep_fileOrder(list) == list

\* line 595: sort((a, b) => a.depEpoch - b.depEpoch), a stable sort: a
\* record comes after those departing earlier and after those departing at
\* the same instant that precede it in the list
SortByDep(list) ==
  LET n == Len(list)
      before(i, j) == \/ list[i].depEpoch < list[j].depEpoch
                      \/ list[i].depEpoch = list[j].depEpoch /\ i < j
      place(j) == Cardinality({i \in 1..n : before(i, j)}) + 1
  IN AsTuple([k \in 1..n |-> list[CHOOSE j \in 1..n : place(j) = k]])

\* the calendar date of an instant in a zone, as the en-CA formatter gives it
DateIn(sec, zone) ==
  LET f == CivilFields(sec + ZoneOffset(zone, sec))
  IN <<f.year, f.month, f.day>>

\* TodayOnly comparing the calendar dates in UTC instead of the user zone
TodayOnly_utcDate(list, opts, now) ==
  LET date(sec) == <<CivilFields(sec).year, CivilFields(sec).month, CivilFields(sec).day>>
      today(x) == date(x.depEpoch) = date(now)
  IN IF opts.todayOnly THEN SelectSeq(list, today) ELSE list

\* lines 597-611: the records departing on the date of "now" in the user zone
TodayOnly(list, opts, now) ==
  LET userTz == OrElse(opts.userTz, DefaultTz)
      today(x) == DateIn(x.depEpoch, userTz) = DateIn(now, userTz)
  IN IF opts.todayOnly THEN SelectSeq(list, today) ELSE list

\* lines 614-615: nextOnly keeps the first record; a limit that is not 0
\* cuts the list
NextAndCap(list, opts, limit) ==
  LET next == IF opts.nextOnly THEN <<list[1]>> ELSE list
  IN IF limit # 0 /\ Len(next) > limit THEN SubSeq(next, 1, limit) ELSE next

RECURSIVE Decimal(_)
Decimal(n) ==
  IF n < 10 THEN <<DigitChars[n + 1]>> ELSE Decimal(n \div 10) \o <<DigitChars[(n % 10) + 1]>>

NoFlights == <<"I"," ","f","o","u","n","d"," ","0"," ","f","l","i","g","h","t","s",".">> (* I found 0 flights. *)

\* line 625: `I found ${n} flight${n === 1 ? "" : "s"}:\n`
FlightsHeader(n) ==
  <<"I"," ","f","o","u","n","d"," ">> (* I found  *) \o Decimal(n) \o <<" ","f","l","i","g","h","t">> (*  flight *) \o (IF n = 1 THEN <<>> ELSE <<"s">>) \o <<":", "\n">>

\* formatUpcomingFlights(limit, opts) on the table and the clock given.  The
\* text returned is its first line (header) and the records rendered under
\* it, in order (items); the call throws when a conversion throws or the
\* user zone of todayOnly is unknown.
formatUpcomingFlights(limit, opts, table, now, hc) ==
  IF table = None \/ table = Some(<<>>)
    THEN [kind |-> "text", header |-> NoFlights, items |-> <<>>]
  ELSE
    With(FlightRows(table[1], opts), LAMBDA rows :
      IF ConversionThrows(rows, hc) THEN [kind |-> "throws"]
      ELSE IF opts.todayOnly /\ OrElse(opts.userTz, DefaultTz) \notin Zones
        THEN [kind |-> "throws"]
      ELSE
        With(Upcoming(CityFilter(WithDepEpoch(rows, hc), opts), now), LAMBDA upcoming :
          With(TodayOnly(SortByDep(upcoming), opts, now), LAMBDA list :
            IF list = <<>>
              THEN [kind |-> "text", header |-> NoFlights, items |-> <<>>]
              ELSE With(NextAndCap(list, opts, limit), LAMBDA shown :
                     [kind |-> "text", header |-> FlightsHeader(Len(shown)),
                      items |-> shown]))))

\* The flight tables, clocks, options and limits the scheduler is applied to.
FlightRow(number, from, to, time, zone) ==
  [airline |-> <<"Q","F">> (* QF *), flight_number |-> number, departure_city |-> from,
   arrival_city |-> to, departure_time |-> time, arrival_time |-> <<>>,
   departure_timezone |-> zone, arrival_timezone |-> <<>>, confirmation |-> <<>>]

CandidateRows ==
  { FlightRow(<<"1">>, <<"S","y","d","n","e","y">> (* Sydney *), <<"A","u","c","k","l","a","n","d">> (* Auckland *), <<"2","0","2","5","-","0","3","-","1","5","T","0","9",":","0","0",":","0","0">> (* 2025-03-15T09:00:00 *), <<"A","u","s","t","r","a","l","i","a","/","S","y","d","n","e","y">> (* Australia/Sydney *)),
    FlightRow(<<"2">>, <<"A","u","c","k","l","a","n","d">> (* Auckland *), <<"S","y","d","n","e","y">> (* Sydney *), <<"2","0","2","5","-","0","3","-","1","5","T","1","8",":","3","0",":","0","0">> (* 2025-03-15T18:30:00 *), <<>>),
    FlightRow(<<"3">>, <<"N","e","w"," ","Y","o","r","k">> (* New York *), <<"A","U","C","K","L","A","N","D">> (* AUCKLAND *), <<"2","0","2","5","-","0","3","-","1","6","T","0","0",":","3","0">> (* 2025-03-16T00:30 *), <<"A","m","e","r","i","c","a","/","N","e","w","_","Y","o","r","k">> (* America/New_York *)),
    FlightRow(<<"4">>, <<"S","y","d","n","e","y">> (* Sydney *), <<"A","u","c","k","l","a","n","d">> (* Auckland *), <<>>, <<"A","u","s","t","r","a","l","i","a","/","S","y","d","n","e","y">> (* Australia/Sydney *)),
    FlightRow(<<"5">>, <<"S","y","d","n","e","y">> (* Sydney *), <<"A","u","c","k","l","a","n","d">> (* Auckland *), <<"2","0","2","5","-","0","3","-","1","5","T","0","9",":","0","0",":","0","0">> (* 2025-03-15T09:00:00 *), <<"M","a","r","s","/","P","h","o","b","o","s">> (* Mars/Phobos *)),
    FlightRow(<<"6">>, <<"S","y","d","n","e","y">> (* Sydney *), <<"A","u","c","k","l","a","n","d">> (* Auckland *), <<"1","5","/","0","3","/","2","0","2","5"," ","0","9",":","0","0">> (* 15/03/2025 09:00 *), <<"A","u","s","t","r","a","l","i","a","/","S","y","d","n","e","y">> (* Australia/Sydney *)),
    FlightRow(<<"7">>, <<"S","y","d","n","e","y"," ","A","i","r","p","o","r","t">> (* Sydney Airport *), <<"N","o","r","t","h"," ","A","u","c","k","l","a","n","d">> (* North Auckland *), <<"2","0","2","5","-","0","3","-","1","5","T","1","2",":","0","0",":","0","0">> (* 2025-03-15T12:00:00 *), <<"A","u","s","t","r","a","l","i","a","/","S","y","d","n","e","y">> (* Australia/Sydney *)) }

MaxRows == 2

\* a table longer than the limit of 10, not in time order: one flight in
\* the past of every clock drawn, then LongTableRows flights one per hour,
\* latest first
LongTableRows == 11

LongTable ==
  <<FlightRow(<<"0">>, <<"S","y","d","n","e","y">> (* Sydney *), <<"A","u","c","k","l","a","n","d">> (* Auckland *), <<"2","0","2","5","-","0","3","-","0","1","T","0","9",":","0","0",":","0","0">> (* 2025-03-01T09:00:00 *), <<"A","u","s","t","r","a","l","i","a","/","S","y","d","n","e","y">> (* Australia/Sydney *))>>
  \o [i \in 1..LongTableRows |->
        FlightRow(Decimal(i), <<"S","y","d","n","e","y">> (* Sydney *), <<"A","u","c","k","l","a","n","d">> (* Auckland *),
                  LocalIso([year |-> 2025, month |-> 3, day |-> 20, hour |-> 23 - i,
                            minute |-> 0, second |-> 0], TRUE),
                  <<"A","u","s","t","r","a","l","i","a","/","S","y","d","n","e","y">> (* Australia/Sydney *))]

\* a missing file, a table of only the header line, and tables of rows
FlightTables ==
  {None, Some(LongTable)}
  \cup {Some(t) : t \in UNION {[1..n -> CandidateRows] : n \in 0..MaxRows}}

\* the clock: before every flight (07:00 of 15 March in Sydney), between
\* the flights of 15 March, and after all but the long table's
Nows ==
  { DateUTC(2025, 3, 14, 20, 0, 0), DateUTC(2025, 3, 15, 0, 0, 0),
    DateUTC(2025, 3, 17, 0, 0, 0) }

FlightOpts ==
  [toCity : {<<>>, <<"a","u","c","k","l","a","n","d">> (* auckland *)}, fromCity : {<<>>, <<"s","y","d","n","e","y">> (* sydney *)}, city : {<<>>, <<"s","y","d","n","e","y">> (* sydney *)},
   userTz : {DefaultTz}, nextOnly : BOOLEAN, todayOnly : BOOLEAN]
  \cup {[toCity |-> <<>>, fromCity |-> <<>>, city |-> <<>>, userTz |-> <<>>,
         nextOnly |-> FALSE, todayOnly |-> FALSE]}

\* the limits the callers pass (part_001:292, 453-484)
Limits == {1, 10, 50}

InitFlights ==
  /\ hourCycle \in HourCycles
  /\ IntentIdle /\ CallsIdle /\ EngineIdle
  /\ shows = [ok |-> TRUE, rows |-> <<>>]
  /\ answers = [ok |-> TRUE, defs |-> <<>>]
  /\ flights \in FlightTables
  /\ nowUtc \in Nows

\* one call of formatUpcomingFlights
FormatFlights ==
  /\ fu.phase = "idle"
  /\ \E limit \in Limits : \E opts \in FlightOpts :
       fu' = [phase |-> "done", limit |-> limit, opts |-> opts,
              out |-> formatUpcomingFlights(limit, opts, flights, nowUtc, hourCycle)]
  /\ UNCHANGED <<intentVars, hourCycle, engineVars, dataVars, tz, ff, pm, rd, req, rt>>

NextFlights == FormatFlights

SpecFlights == InitFlights /\ [][NextFlights]_vars

----------------------------------------------------------------------------
(* Claims about formatUpcomingFlights, checked under SpecFlights *)

SameCity(a, b) == AsTuple(toLowerCase(a)) = AsTuple(toLowerCase(b))

\* the one test the precedence toCity, fromCity, city selects for a row
PassesChosenFilter(r, o) ==
  IF o.toCity # <<>> THEN SameCity(r.arrival_city, o.toCity)
  ELSE IF o.fromCity # <<>> THEN SameCity(r.departure_city, o.fromCity)
  ELSE IF o.city # <<>> THEN SameCity(r.departure_city, o.city) \/ SameCity(r.arrival_city, o.city)
  ELSE TRUE

\* the rows of the table that have a departure time, pass the chosen test
\* and do not depart before now
UpcomingPassing(o) ==
  { j \in 1..Len(flights[1]) :
      /\ flights[1][j].departure_time # <<>>
      /\ PassesChosenFilter(flights[1][j], o)
      /\ zonedLocalToEpochMs(flights[1][j].departure_time,
                             OrElse(flights[1][j].departure_timezone, OrElse(o.userTz, DefaultTz)),
                             hourCycle)[1] >= nowUtc }

\* C11: formatUpcomingFlights applies one city filter, chosen by the
\* precedence toCity over fromCity over city: every record rendered passes
\* the chosen test (arrival city for toCity, departure city for fromCity,
\* either for city, compared exactly up to case), and no other option
\* removes a record: without nextOnly and todayOnly the records rendered are
\* all upcoming rows that pass the chosen test, up to the limit.
C11_OneDirectionalFilter ==
  (fu.phase = "done" /\ fu.out.kind = "text") =>
    /\ \A i \in 1..Len(fu.out.items) : PassesChosenFilter(fu.out.items[i].r, fu.opts)
    /\ (flights # None /\ ~fu.opts.nextOnly /\ ~fu.opts.todayOnly) =>
         Len(fu.out.items) =
           IF Cardinality(UpcomingPassing(fu.opts)) > fu.limit
             THEN fu.limit ELSE Cardinality(UpcomingPassing(fu.opts))

\* toCity and fromCity both given: a flight from New York to AUCKLAND is
\* rendered for toCity auckland although it does not leave from sydney, and
\* the flight to North Auckland of the same table is not
C11_Witness ==
  /\ fu.phase = "done"
  /\ fu.out.kind = "text"
  /\ fu.opts.toCity = <<"a","u","c","k","l","a","n","d">> (* auckland *)
  /\ fu.opts.fromCity = <<"s","y","d","n","e","y">> (* sydney *)
  /\ flights # None
  /\ \E j \in 1..Len(flights[1]) : flights[1][j].arrival_city = <<"N","o","r","t","h"," ","A","u","c","k","l","a","n","d">> (* North Auckland *)
  /\ Len(fu.out.items) = 1
  /\ fu.out.items[1].r.arrival_city = <<"A","U","C","K","L","A","N","D">> (* AUCKLAND *)
  /\ fu.out.items[1].r.departure_city = <<"N","e","w"," ","Y","o","r","k">> (* New York *)

\* whether an instant falls on the calendar date of now in the user zone
IsToday(sec, o) ==
  DateIn(sec, OrElse(o.userTz, DefaultTz)) = DateIn(nowUtc, OrElse(o.userTz, DefaultTz))

\* row j of the table as it reaches the conversion, and its departure instant
RowOf(j, o) ==
  [flights[1][j] EXCEPT !.departure_timezone =
     OrElse(flights[1][j].departure_timezone, OrElse(o.userTz, DefaultTz))]

DepEpochOf(j, o) ==
  zonedLocalToEpochMs(RowOf(j, o).departure_time, RowOf(j, o).departure_timezone, hourCycle)[1]

\* the upcoming rows that pass the city filter and, when set, todayOnly
Remaining(o) ==
  { j \in UpcomingPassing(o) : o.todayOnly => IsToday(DepEpochOf(j, o), o) }

\* C25: in formatUpcomingFlights the steps run in the order past-filter, sort,
\* todayOnly, nextOnly, cap.  With todayOnly every record rendered departs on
\* the calendar date of now in the user zone.  With nextOnly one record is
\* rendered as soon as one remains, and it is the earliest of the upcoming
\* rows that pass the city filter and, when set, todayOnly; without nextOnly
\* all of these rows are rendered, up to the limit.
C25_StepsInOrder ==
  (fu.phase = "done" /\ fu.out.kind = "text" /\ flights # None) =>
    With(Remaining(fu.opts), LAMBDA left :
      /\ fu.opts.todayOnly =>
           \A i \in 1..Len(fu.out.items) : IsToday(fu.out.items[i].depEpoch, fu.opts)
      /\ fu.opts.nextOnly =>
           /\ Len(fu.out.items) = IF left = {} THEN 0 ELSE 1
           /\ left # {} =>
                \E j \in left :
                  /\ fu.out.items[1].r = RowOf(j, fu.opts)
                  /\ fu.out.items[1].depEpoch = DepEpochOf(j, fu.opts)
                  /\ \A k \in left : DepEpochOf(j, fu.opts) <= DepEpochOf(k, fu.opts)
      /\ ~fu.opts.nextOnly =>
           Len(fu.out.items) = IF Cardinality(left) > fu.limit
                                 THEN fu.limit ELSE Cardinality(left))

\* nextOnly and todayOnly at 07:00 of 15 March in Sydney: the table lists a
\* flight of 16 March first and one of 15 March second, and the second one
\* is the record rendered
C25_Witness ==
  /\ fu.phase = "done"
  /\ fu.out.kind = "text"
  /\ fu.opts.nextOnly /\ fu.opts.todayOnly
  /\ nowUtc = DateUTC(2025, 3, 14, 20, 0, 0)
  /\ flights # None
  /\ Len(flights[1]) = 2
  /\ flights[1][1].flight_number = <<"3">>
  /\ flights[1][2].flight_number = <<"2">>
  /\ Len(fu.out.items) = 1
  /\ fu.out.items[1].r.flight_number = <<"2">>

\* C26: a malformed flight row affects only itself: the rows that reach the
\* time conversion are the rows of the table that have a departure_time, in
\* order, each with a non-empty departure timezone (its own, else the
\* fallback zone), and no row with a missing or unparseable time or zone
\* makes the call of formatUpcomingFlights fail.
C26_BadRowAffectsOnlyItself ==
  (fu.phase = "done" /\ flights # None) =>
    With(FlightRows(flights[1], fu.opts), LAMBDA rows :
      /\ Len(rows) = Cardinality({j \in 1..Len(flights[1]) : flights[1][j].departure_time # <<>>})
      /\ \A i \in 1..Len(rows) :
           /\ rows[i].departure_time # <<>>
           /\ rows[i].departure_timezone # <<>>
      /\ fu.out.kind = "text")

\* C12: formatUpcomingFlights returns exactly "I found 0 flights." when no
\* record is left to render (all departed, the file missing, only the header
\* line), and otherwise a text whose header reads "I found N flight" or "I
\* found N flights", N being the number of itineraries rendered, between 1
\* and the limit, the singular being used exactly for N = 1.
C12_HeaderCountsItineraries ==
  fu.phase = "done" =>
    /\ fu.out.kind = "text"
    /\ LET n == Len(fu.out.items)
       IN IF n = 0 THEN fu.out.header = <<"I"," ","f","o","u","n","d"," ","0"," ","f","l","i","g","h","t","s",".">> (* I found 0 flights. *)
          ELSE /\ n <= fu.limit
               /\ fu.out.header = <<"I"," ","f","o","u","n","d"," ">> (* I found  *) \o Decimal(n)
                                    \o (IF n = 1 THEN <<" ","f","l","i","g","h","t">> (*  flight *) ELSE <<" ","f","l","i","g","h","t","s">> (*  flights *)) \o <<":", "\n">>

----------------------------------------------------------------------------
(* The vocabulary cache and the parser of TmAiEngine *)

\* The answer store is [ok, defs]: ok is whether a query succeeds, defs the
\* current rows of tm_answers in term_id order, each [term_id, locale,
\* answer_template] with a nullable template.  The flights file is the
\* variable flights: None when the file is missing, else its data rows.

\* the entries of s in order of first appearance, none twice
Distinct(s) ==
  LET keep == {i \in 1..Len(s) : \A j \in 1..(i - 1) : s[j] # s[i]}
  IN AsTuple([k \in 1..Cardinality(keep) |->
                s[CHOOSE i \in keep : Cardinality({j \in keep : j < i}) = k - 1]])

\* getTermIds(): the lowercased term ids, [] when the query fails
getTermIds(store) ==
  IF ~store.ok THEN <<>>
  ELSE With(Distinct(AsTuple([i \in 1..Len(store.defs) |-> store.defs[i].term_id])),
            LAMBDA ids : AsTuple([i \in 1..Len(ids) |-> AsTuple(toLowerCase(ids[i]))]))

\* getCitiesFromCsv(): the lowercased departure and arrival cities of the
\* flights file in order of first appearance; [] without a file or rows
getCitiesFromCsv(table) ==
  IF table = None THEN <<>>
  ELSE IF table[1] = <<>> THEN <<>>
  ELSE
    LET named(c) == c # <<>>
        both == AsTuple([i \in 1..(2 * Len(table[1])) |->
                  IF i % 2 = 1 THEN AsTuple(toLowerCase(table[1][(i + 1) \div 2].departure_city))
                  ELSE AsTuple(toLowerCase(table[1][i \div 2].arrival_city))])
    IN With(SelectSeq(both, named), LAMBDA found : Distinct(found))

\* normalizeMessage(message)
normalizeMessage(message) ==
  AsTuple(trim(CollapseSpace(ReplaceNonWord(AsTuple(toLowerCase(message))))))

\* parseMessage(message): line 155 returns out before the verb and the
\* vocabulary are looked at
parseMessage(message) ==
  LET out == [verb |-> None, entities |-> <<>>, normalized |-> <<>>]
  IN With(normalizeMessage(message), LAMBDA normalized :
       IF normalized = <<>> THEN [out EXCEPT !.normalized = normalized] ELSE out)

AnswerRow(term, locale, template) ==
  [term_id |-> term, locale |-> locale, answer_template |-> template]

LocaleAU == <<"e","n","-","A","U">> (* en-AU *)

SoundcheckDefinition == <<"A"," ","t","e","s","t"," ","o","f"," ","t","h","e"," ","s","o","u","n","d"," ","s","y","s","t","e","m"," ","b","e","f","o","r","e"," ","d","o","o","r","s",".">> (* A test of the sound system before doors. *)

\* a store whose queries fail, an empty store, and stores with current rows
AnswerStores ==
  { [ok |-> FALSE, defs |-> <<>>],
    [ok |-> TRUE, defs |-> <<>>],
    [ok |-> TRUE, defs |-> <<AnswerRow(<<"s","o","u","n","d","c","h","e","c","k">> (* soundcheck *), LocaleAU, Some(SoundcheckDefinition))>>],
    [ok |-> TRUE, defs |-> <<AnswerRow(<<"E","n","c","o","r","e">> (* Encore *), LocaleAU, None),
                             AnswerRow(<<"s","o","u","n","d","c","h","e","c","k">> (* soundcheck *), LocaleAU, Some(SoundcheckDefinition)),
                             AnswerRow(<<"s","o","u","n","d","c","h","e","c","k">> (* soundcheck *), <<"e","n","-","U","S">> (* en-US *), Some(<<"S","o","u","n","d"," ","c","h","e","c","k",".">> (* Sound check. *)))>>] }

\* no flights file, a file of only the header, files with rows
CityTables ==
  { None, Some(<<>>),
    Some(<<FlightRow(<<"1">>, <<"S","y","d","n","e","y">> (* Sydney *), <<"A","u","c","k","l","a","n","d">> (* Auckland *), <<"2","0","2","5","-","0","3","-","1","5","T","0","9",":","0","0",":","0","0">> (* 2025-03-15T09:00:00 *), DefaultTz)>>),
    Some(<<FlightRow(<<"1">>, <<"S","y","d","n","e","y">> (* Sydney *), <<"A","u","c","k","l","a","n","d">> (* Auckland *), <<"2","0","2","5","-","0","3","-","1","5","T","0","9",":","0","0",":","0","0">> (* 2025-03-15T09:00:00 *), DefaultTz),
           FlightRow(<<"2">>, <<"A","U","C","K","L","A","N","D">> (* AUCKLAND *), <<>>, <<"2","0","2","5","-","0","3","-","1","5","T","1","8",":","3","0",":","0","0">> (* 2025-03-15T18:30:00 *), <<>>),
           FlightRow(<<"3">>, <<"N","e","w"," ","Y","o","r","k">> (* New York *), <<"s","y","d","n","e","y">> (* sydney *), <<"2","0","2","5","-","0","3","-","1","6","T","0","0",":","3","0">> (* 2025-03-16T00:30 *), DefaultTz)>>) }

ParseMessages ==
  { <<>>, <<" "," ","?","!"," ">> (*   ?!  *), <<"s","o","u","n","d","c","h","e","c","k">> (* soundcheck *), <<"h","e","l","l","o">> (* hello *),
    <<"w","h","a","t"," ","t","i","m","e"," ","i","s"," ","s","o","u","n","d","c","h","e","c","k"," ","i","n"," ","S","y","d","n","e","y">> (* what time is soundcheck in Sydney *), <<"W","h","a","t"," ","t","i","m","e"," ","i","s"," ","S","O","U","N","D","-","C","H","E","C","K"," ","i","n"," ","S","y","d","n","e","y","?">> (* What time is SOUND-CHECK in Sydney? *),
    <<"w","h","e","r","e"," ","i","s"," ","t","h","e"," ","e","n","c","o","r","e">> (* where is the encore *), <<"f","l","i","g","h","t","s"," ","t","o"," ","a","u","c","k","l","a","n","d">> (* flights to auckland *) }

\* the engine just constructed: both loads started, the caches still empty
InitParse ==
  /\ hourCycle = "h23"
  /\ IntentIdle /\ CallsIdle
  /\ industryTerms = <<>> /\ cities = <<>>
  /\ loading = {"terms", "cities"}
  /\ shows = [ok |-> TRUE, rows |-> <<>>]
  /\ answers \in AnswerStores
  /\ flights \in CityTables
  /\ nowUtc = 0

\* loadTerms() completes
LoadTerms ==
  /\ "terms" \in loading
  /\ industryTerms' = getTermIds(answers)
  /\ loading' = loading \ {"terms"}
  /\ UNCHANGED <<intentVars, hourCycle, cities, dataVars, callVars>>

\* loadCities() completes
LoadCities ==
  /\ "cities" \in loading
  /\ cities' = getCitiesFromCsv(flights)
  /\ loading' = loading \ {"cities"}
  /\ UNCHANGED <<intentVars, hourCycle, industryTerms, dataVars, callVars>>

\* one call of parseMessage, with the caches as they are at the call
Parse ==
  /\ pm.phase = "idle"
  /\ \E message \in ParseMessages :
       pm' = [phase |-> "done", message |-> message, terms |-> industryTerms,
              cities |-> cities, out |-> parseMessage(message)]
  /\ UNCHANGED <<intentVars, hourCycle, engineVars, dataVars, tz, ff, rd, fu, req, rt>>

NextParse == LoadTerms \/ LoadCities \/ Parse

SpecParse == InitParse /\ [][NextParse]_vars

----------------------------------------------------------------------------
(* Claims about parseMessage, checked under SpecParse *)

\* C5: for every message and every term in the vocabulary cache
\* (industryTerms) at the call, parseMessage(message).entities contains the
\* term if and only if the term is a substring of the normalized message.
C5_EntitiesIffSubstring ==
  pm.phase = "done" =>
    \A i \in 1..Len(pm.terms) :
      (pm.terms[i] \in Range(pm.out.entities))
        <=> Includes(normalizeMessage(pm.message), pm.terms[i])

\* lines 110-117: this.VERBS, longer phrases first
VERBS ==
  << <<"t","e","l","l"," ","m","e"," ","a","b","o","u","t">> (* tell me about *), V_what_time_is, V_when_is, V_where_is, <<"w","h","o"," ","i","s">> (* who is *), <<"w","h","a","t"," ","i","s">> (* what is *) >>

\* the first phrase of VERBS the text starts with
FirstVerb(text) ==
  LET hits == {i \in 1..Len(VERBS) : StartsWith(text, VERBS[i])}
  IN IF hits = {} THEN None ELSE Some(VERBS[CHOOSE i \in hits : \A j \in hits : i <= j])

\* C18: the verb parseMessage returns is the first phrase of VERBS that is a
\* prefix of the normalized message, and none when no phrase is a prefix.
C18_VerbIsFirstPrefix ==
  pm.phase = "done" => pm.out.verb = FirstVerb(normalizeMessage(pm.message))

----------------------------------------------------------------------------
(* TmAiEngine.retrieveData *)

\* The show source is [ok, rows]: ok is whether getShows succeeds, rows the
\* show records it yields.  A call of retrieveData ends in Returned(result,
\* calls) or in Thrown(calls): result is None for null, calls the external
\* reads made, in order.
Returned(result, calls) == [kind |-> "value", result |-> result, calls |-> calls]
Thrown(calls) == [kind |-> "throws", calls |-> calls]

\* resolveAnswer(term_id) for the locale en-AU: the template of the first
\* row of the term and locale when it is not empty, else null
resolveAnswer(term_id, store) ==
  LET match(i) == store.defs[i].term_id = term_id /\ store.defs[i].locale = LocaleAU
      hits == {i \in 1..Len(store.defs) : match(i)}
  IN IF hits = {} THEN None
     ELSE With(store.defs[CHOOSE i \in hits : \A j \in hits : i <= j].answer_template,
               LAMBDA t : IF t = None \/ t = Some(<<>>) THEN None ELSE t)

\* lines 281-284: the first entity that is in the list
FirstIn(entities, list) ==
  LET in == {i \in 1..Len(entities) : entities[i] \in Range(list)}
  IN IF in = {} THEN None ELSE Some(entities[CHOOSE i \in in : \A j \in in : i <= j])

\* /\bflight(s)?\b/.test(q)
MentionsFlight(q) ==
  \E i \in 1..Len(q) :
    /\ OccursAt(q, <<"f","l","i","g","h","t">> (* flight *), i)
    /\ WordBoundary(q, i)
    /\ \/ WordBoundary(q, i + 6)
       \/ OccursAt(q, <<"s">>, i + 6) /\ WordBoundary(q, i + 7)

\* line 292: the options handed to formatUpcomingFlights
TravelOpts(city) ==
  [toCity |-> IF city # None THEN city[1] ELSE <<>>, fromCity |-> <<>>, city |-> <<>>,
   userTz |-> DefaultTz, nextOnly |-> FALSE, todayOnly |-> FALSE]

\* k.replace(/_?(time|name)$/i, "")
StripTimeName(k) ==
  IF EndsWith(toLowerCase(k), <<"t","i","m","e">> (* time *)) \/ EndsWith(toLowerCase(k), <<"n","a","m","e">> (* name *))
    THEN IF EndsWith(SubSeq(k, 1, Len(k) - 4), <<"_">>)
           THEN SubSeq(k, 1, Len(k) - 5)
           ELSE SubSeq(k, 1, Len(k) - 4)
    ELSE k

\* guessTermFromShowKeys(qstr, showObj): the base name of the first key
\* whose normalized base name occurs in the normalized query
guessTermFromShowKeys(qstr, show) ==
  LET found(i) == /\ norm(StripTimeName(show[i].k)) # <<>>
                  /\ Includes(norm(qstr), norm(StripTimeName(show[i].k)))
      hits == {i \in 1..Len(show) : found(i)}
  IN IF hits = {} THEN None
     ELSE Some(StripTimeName(show[CHOOSE i \in hits : \A j \in hits : i <= j].k))

\* a nullable column as text
Text(v) == IF v = None THEN <<>> ELSE v[1]

\* getShowByCity(city) on the records of the source
getShowByCity(city, rows) ==
  LET match(i) == AsTuple(toLowerCase(Text(Get(rows[i], <<"c","i","t","y">> (* city *))))) = AsTuple(toLowerCase(city))
      hits == {i \in 1..Len(rows) : match(i)}
  IN IF hits = {} THEN None ELSE Some(rows[CHOOSE i \in hits : \A j \in hits : i <= j])

\* parts.join(", ")
RECURSIVE JoinComma(_)
JoinComma(parts) ==
  IF parts = <<>> THEN <<>>
  ELSE IF Len(parts) = 1 THEN parts[1]
  ELSE parts[1] \o <<","," ">> (* ,  *) \o JoinComma(Tail(parts))

\* the place with every part joined, the empty ones as well
Place_keepBlanks(show) ==
  JoinComma(<<Text(Get(show, <<"v","e","n","u","e","_","n","a","m","e">> (* venue_name *))), Text(Get(show, <<"c","i","t","y">> (* city *))),
              OrElse(Text(Get(show, <<"s","t","a","t","e">> (* state *))), Text(Get(show, <<"r","e","g","i","o","n">> (* region *)))),
              Text(Get(show, <<"c","o","u","n","t","r","y">> (* country *)))>>)

\* lines 321-322: [venue_name, city, state || region, country].filter(Boolean).join(", ")
Place(show) ==
  LET truthy(p) == p # <<>>
  IN JoinComma(SelectSeq(<<Text(Get(show, <<"v","e","n","u","e","_","n","a","m","e">> (* venue_name *))), Text(Get(show, <<"c","i","t","y">> (* city *))),
                           OrElse(Text(Get(show, <<"s","t","a","t","e">> (* state *))), Text(Get(show, <<"r","e","g","i","o","n">> (* region *)))),
                           Text(Get(show, <<"c","o","u","n","t","r","y">> (* country *)))>>, truthy))

\* the fallback without the lookup in the definition store
GenericTerm_noLookup(term, store, calls) ==
  Returned(None, calls)

\* lines 329-330, 335-336, 343-344: the definition of a term, as genericTerm
GenericTerm(term, store, calls) ==
  IF ~store.ok THEN Thrown(Append(calls, "resolveAnswer"))
  ELSE With(resolveAnswer(term, store), LAMBDA definition :
         IF definition # None
           THEN Returned(Some([responseType |-> "genericTerm",
                               payload |-> [term |-> term, definition |-> definition[1]]]),
                         Append(calls, "resolveAnswer"))
           ELSE Returned(None, Append(calls, "resolveAnswer")))

\* lines 310-339: the lookup of a term in the show of a city
CityLookup(term, city, q, verb, terms, showSrc, store) ==
  IF ~showSrc.ok THEN Thrown(<<"getShows">>)
  ELSE
    With(getShowByCity(city, showSrc.rows), LAMBDA show :
      IF show = None
        THEN IF term # None /\ term[1] \in Range(terms)
               THEN GenericTerm(term[1], store, <<"getShows">>)
               ELSE Returned(None, <<"getShows">>)
      ELSE
        With(IF term = None THEN guessTermFromShowKeys(q, show[1]) ELSE term, LAMBDA t :
          With(findFieldForTerm(show, t, verb), LAMBDA hit :
            IF t # None /\ hit # None
              THEN IF verb = Some(V_where_is)
                     THEN Returned(Some([responseType |-> "contextualLocation",
                                         payload |-> [term |-> t[1], city |-> city,
                                                      field |-> hit[1].k, value |-> hit[1].val,
                                                      place |-> Place(show[1])]]),
                                   <<"getShows">>)
                     ELSE Returned(Some([responseType |-> "contextualTerm",
                                         payload |-> [term |-> t[1], city |-> city,
                                                      field |-> hit[1].k, value |-> hit[1].val]]),
                                   <<"getShows">>)
            ELSE IF t # None /\ t[1] \in Range(terms)
              THEN GenericTerm(t[1], store, <<"getShows">>)
            ELSE Returned(None, <<"getShows">>))))

\* retrieveData(parsed) with the caches, the sources and the clock given
retrieveData(parsed, terms, cts, showSrc, store, table, now, hc) ==
  IF parsed.entities = <<>> /\ parsed.normalized = <<>> THEN Returned(None, <<>>)
  ELSE
    With(FirstIn(parsed.entities, terms), LAMBDA term :
      With(FirstIn(parsed.entities, cts), LAMBDA city :
        IF MentionsFlight(parsed.normalized)
          THEN With(formatUpcomingFlights(10, TravelOpts(city), table, now, hc), LAMBDA text :
                 IF text.kind = "throws" THEN Thrown(<<>>)
                 ELSE Returned(Some([responseType |-> "travelSchedule",
                                     payload |-> [text |-> text]]), <<>>))
        ELSE IF city # None
          THEN CityLookup(term, city[1], parsed.normalized, parsed.verb, terms, showSrc, store)
        ELSE IF term # None THEN GenericTerm(term[1], store, <<>>)
        ELSE Returned(None, <<>>)))

\* The sources and the parsed queries retrieveData is applied to.
SydneyShow ==
  << [k |-> <<"c","i","t","y">> (* city *), val |-> Some(<<"s","y","d","n","e","y">> (* sydney *))],
     [k |-> <<"s","o","u","n","d","c","h","e","c","k","_","t","i","m","e">> (* soundcheck_time *), val |-> Some(<<"1","6",":","0","0">> (* 16:00 *))],
     [k |-> <<"s","h","o","w","_","t","i","m","e">> (* show_time *), val |-> Some(<<"2","0",":","0","0">> (* 20:00 *))] >>

AucklandShow ==
  << [k |-> <<"v","e","n","u","e","_","n","a","m","e">> (* venue_name *), val |-> Some(<<"S","p","a","r","k"," ","A","r","e","n","a">> (* Spark Arena *))],
     [k |-> <<"c","i","t","y">> (* city *), val |-> Some(<<"A","u","c","k","l","a","n","d">> (* Auckland *))],
     [k |-> <<"s","t","a","t","e">> (* state *), val |-> None],
     [k |-> <<"r","e","g","i","o","n">> (* region *), val |-> Some(<<"N","o","r","t","h"," ","I","s","l","a","n","d">> (* North Island *))],
     [k |-> <<"c","o","u","n","t","r","y">> (* country *), val |-> Some(<<"N","Z">> (* NZ *))],
     [k |-> <<"d","o","o","r","s","_","t","i","m","e">> (* doors_time *), val |-> Some(<<>>)] >>

\* a show whose soundcheck time is not entered yet
SydneyShowTba ==
  << [k |-> <<"c","i","t","y">> (* city *), val |-> Some(<<"S","y","d","n","e","y">> (* Sydney *))],
     [k |-> <<"s","o","u","n","d","c","h","e","c","k","_","t","i","m","e">> (* soundcheck_time *), val |-> Some(<<>>)] >>

\* a source that fails, one without shows, and sources with shows
ShowSources ==
  { [ok |-> FALSE, rows |-> <<>>], [ok |-> TRUE, rows |-> <<>>],
    [ok |-> TRUE, rows |-> <<SydneyShow>>],
    [ok |-> TRUE, rows |-> <<SydneyShowTba>>],
    [ok |-> TRUE, rows |-> <<AucklandShow, SydneyShow>>] }

\* flight files: none, well-formed ones, and one with a row of an unknown zone
RetrieveTables ==
  CityTables \cup
  { Some(<<FlightRow(<<"1">>, <<"S","y","d","n","e","y">> (* Sydney *), <<"A","u","c","k","l","a","n","d">> (* Auckland *), <<"2","0","2","5","-","0","3","-","1","5","T","0","9",":","0","0",":","0","0">> (* 2025-03-15T09:00:00 *), DefaultTz),
           FlightRow(<<"5">>, <<"A","u","c","k","l","a","n","d">> (* Auckland *), <<"S","y","d","n","e","y">> (* Sydney *), <<"2","0","2","5","-","0","3","-","1","6","T","0","9",":","0","0",":","0","0">> (* 2025-03-16T09:00:00 *), <<"M","a","r","s","/","P","h","o","b","o","s">> (* Mars/Phobos *))>>) }

ParsedVerbs == { None, Some(V_what_time_is), Some(V_where_is) }

ParsedEntities ==
  { <<>>, <<<<"s","o","u","n","d","c","h","e","c","k">> (* soundcheck *)>>, <<<<"s","y","d","n","e","y">> (* sydney *)>>, <<<<"s","o","u","n","d","c","h","e","c","k">> (* soundcheck *), <<"s","y","d","n","e","y">> (* sydney *)>>,
    <<<<"a","u","c","k","l","a","n","d">> (* auckland *), <<"e","n","c","o","r","e">> (* encore *), <<"s","y","d","n","e","y">> (* sydney *)>>, <<<<"f","l","i","g","h","t","s">> (* flights *)>> }

ParsedTexts ==
  { <<>>, <<"w","h","a","t"," ","t","i","m","e"," ","i","s"," ","s","o","u","n","d","c","h","e","c","k"," ","i","n"," ","s","y","d","n","e","y">> (* what time is soundcheck in sydney *), <<"w","h","e","r","e"," ","i","s"," ","t","h","e"," ","v","e","n","u","e"," ","i","n"," ","a","u","c","k","l","a","n","d">> (* where is the venue in auckland *),
    <<"f","l","i","g","h","t","s"," ","t","o"," ","s","y","d","n","e","y">> (* flights to sydney *), <<"n","e","x","t"," ","f","l","i","g","h","t">> (* next flight *), <<"p","r","e","f","l","i","g","h","t"," ","c","h","e","c","k","s">> (* preflight checks *), <<"w","h","a","t"," ","i","s"," ","e","n","c","o","r","e">> (* what is encore *) }

ParsedQueries == [verb : ParsedVerbs, entities : ParsedEntities, normalized : ParsedTexts]

RetrieveNow == DateUTC(2025, 3, 14, 20, 0, 0)

\* the engine just constructed, over the sources drawn
InitRetrieve ==
  /\ hourCycle \in HourCycles
  /\ IntentIdle /\ CallsIdle
  /\ industryTerms = <<>> /\ cities = <<>>
  /\ loading = {"terms", "cities"}
  /\ shows \in ShowSources
  /\ answers \in AnswerStores
  /\ flights \in RetrieveTables
  /\ nowUtc = RetrieveNow

\* one call of retrieveData, with the caches as they are at the call
Retrieve ==
  /\ rd.phase = "idle"
  /\ \E parsed \in ParsedQueries :
       rd' = [phase |-> "done", parsed |-> parsed, terms |-> industryTerms,
              cities |-> cities, now |-> nowUtc,
              out |-> retrieveData(parsed, industryTerms, cities, shows, answers,
                                   flights, nowUtc, hourCycle)]
  /\ UNCHANGED <<intentVars, hourCycle, engineVars, dataVars, tz, ff, pm, fu, req, rt>>

NextRetrieve == LoadTerms \/ LoadCities \/ Retrieve

SpecRetrieve == InitRetrieve /\ [][NextRetrieve]_vars

----------------------------------------------------------------------------
(* Claims about retrieveData, checked under SpecRetrieve *)

\* C8: whenever the normalized text contains the standalone word "flight"
\* or "flights", retrieveData returns the travelSchedule variant, whatever
\* the entities and the verb, and consults neither the show source nor the
\* definition store.
C8_FlightMentionRoutesToTravel ==
  (rd.phase = "done" /\ MentionsFlight(rd.parsed.normalized)) =>
    /\ rd.out.kind = "value"
    /\ rd.out.result # None
    /\ rd.out.result[1].responseType = "travelSchedule"
    /\ rd.out.calls = <<>>

\* C14: a failing call of the show source (getShows) or of the definition
\* store (resolveAnswer) is no data for that call: retrieveData still
\* returns, and no exception leaves it.
C14_StoreFailureIsNoData ==
  ( /\ rd.phase = "done"
    /\ ~shows.ok \/ ~answers.ok
    /\ ~MentionsFlight(rd.parsed.normalized) ) =>
    rd.out.kind = "value"

----------------------------------------------------------------------------
(* Claims about the show lookup of retrieveData, checked under SpecRetrieve *)

\* the city and the term retrieveData classifies from the entities, the show
\* of the city, the term with the guess from the show keys, and the hit
LookupCity == FirstIn(rd.parsed.entities, rd.cities)
LookupShow == IF LookupCity = None THEN None ELSE getShowByCity(LookupCity[1], shows.rows)
ListedTerm == FirstIn(rd.parsed.entities, rd.terms)
LookupTerm ==
  IF ListedTerm = None /\ LookupShow # None
    THEN guessTermFromShowKeys(rd.parsed.normalized, LookupShow[1])
    ELSE ListedTerm
LookupHit ==
  IF LookupShow = None \/ LookupTerm = None THEN None
  ELSE findFieldForTerm(LookupShow, LookupTerm, rd.parsed.verb)

\* a call that looks a term up in the show of a city: no word "flight", the
\* show source answers
LooksUpShow ==
  /\ rd.phase = "done" /\ shows.ok
  /\ rd.parsed.entities # <<>> \/ rd.parsed.normalized # <<>>
  /\ ~MentionsFlight(rd.parsed.normalized)
  /\ LookupCity # None

\* venue_name, city, state or region, country of the two shows, the parts
\* that are missing or empty left out
PlaceOf(show) ==
  IF show = AucklandShow THEN <<"S","p","a","r","k"," ","A","r","e","n","a",","," ","A","u","c","k","l","a","n","d",","," ","N","o","r","t","h"," ","I","s","l","a","n","d",","," ","N","Z">> (* Spark Arena, Auckland, North Island, NZ *)
  ELSE IF show = SydneyShowTba THEN <<"S","y","d","n","e","y">> (* Sydney *)
  ELSE IF show = SydneyShow THEN <<"s","y","d","n","e","y">> (* sydney *)
  ELSE <<>>

\* C22: with a city whose show is found and a hit of the field resolver, the
\* verb alone decides the variant: "where is" gives contextualLocation with
\* the place joined from venue_name, city, state or region and country,
\* every other verb or none gives contextualTerm; both carry the field of
\* the hit and its value.
C22_VerbDecidesVariant ==
  (LooksUpShow /\ LookupShow # None /\ LookupHit # None) =>
    /\ rd.out.kind = "value"
    /\ rd.out.result # None
    /\ rd.out.result[1].payload.city = LookupCity[1]
    /\ rd.out.result[1].payload.field = LookupHit[1].k
    /\ rd.out.result[1].payload.value = LookupHit[1].val
    /\ IF rd.parsed.verb = Some(V_where_is)
         THEN /\ rd.out.result[1].responseType = "contextualLocation"
              /\ rd.out.result[1].payload.place = PlaceOf(LookupShow[1])
         ELSE rd.out.result[1].responseType = "contextualTerm"

\* "where is" on the show of Sydney, which has no venue, state or country
C22_Witness ==
  /\ LooksUpShow /\ LookupShow = Some(SydneyShow) /\ LookupHit # None
  /\ rd.parsed.verb = Some(V_where_is)
  /\ rd.out.result[1].payload.place = <<"s","y","d","n","e","y">> (* sydney *)

\* the genericTerm result of a term that is in the vocabulary cache and has
\* a definition in the store, else no result
GenericOf(term) ==
  IF term # None /\ term[1] \in Range(rd.terms) /\ answers.ok
       /\ resolveAnswer(term[1], answers) # None
    THEN Some([responseType |-> "genericTerm",
               payload |-> [term |-> term[1],
                            definition |-> resolveAnswer(term[1], answers)[1]]])
    ELSE None

\* a call without the word "flight" that does not end in a field of a show:
\* no city, or a city without a show, or a show without a hit
NoFieldOfShow ==
  /\ rd.phase = "done"
  /\ rd.parsed.entities # <<>> \/ rd.parsed.normalized # <<>>
  /\ ~MentionsFlight(rd.parsed.normalized)
  /\ LookupCity # None => (shows.ok /\ (LookupShow = None \/ LookupHit = None))

----------------------------------------------------------------------------
(* retrieveData called twice: the same ParsedQuery over the same sources *)

\* the readings of Date.now() (part_001:577) after the first call: one
\* after the flight of 09:00 on 15 March in Sydney has left, and one after
\* every flight of the tables
LaterNows ==
  { DateUTC(2025, 3, 15, 0, 0, 0), DateUTC(2025, 3, 17, 0, 0, 0) }

\* the engine just constructed, over a failing or a full show source and
\* definition store, and over no flight file or one with several rows
InitRepeat ==
  /\ hourCycle \in HourCycles
  /\ IntentIdle /\ CallsIdle
  /\ industryTerms = <<>> /\ cities = <<>>
  /\ loading = {"terms", "cities"}
  /\ shows \in {s \in ShowSources : ~s.ok \/ Len(s.rows) = 2}
  /\ answers \in {a \in AnswerStores : ~a.ok \/ Len(a.defs) = 3}
  /\ flights \in {t \in RetrieveTables : t = None \/ Len(t[1]) >= 2}
  /\ nowUtc = RetrieveNow

\* time passes between two calls; the sources are left as they are
Tick ==
  /\ rd.phase = "done"
  /\ \E t \in LaterNows : t > nowUtc /\ nowUtc' = t
  /\ UNCHANGED <<intentVars, hourCycle, engineVars, shows, answers, flights, callVars>>

\* a second call that is handed entities the first call has consumed
RetrieveAgain_consumed ==
  /\ rd.phase = "done"
  /\ rd' = [phase |-> "again", first |-> rd, parsed |-> rd.parsed,
            terms |-> industryTerms, cities |-> cities, now |-> nowUtc,
            out |-> retrieveData([rd.parsed EXCEPT !.entities = <<>>], industryTerms,
                                 cities, shows, answers, flights, nowUtc, hourCycle)]
  /\ UNCHANGED <<intentVars, hourCycle, engineVars, dataVars, tz, ff, pm, fu, req, rt>>

\* the second call of retrieveData with the ParsedQuery of the first, which
\* retrieveData only reads (part_001:275-284)
RetrieveAgain ==
  /\ rd.phase = "done"
  /\ rd' = [phase |-> "again", first |-> rd, parsed |-> rd.parsed,
            terms |-> industryTerms, cities |-> cities, now |-> nowUtc,
            out |-> retrieveData(rd.parsed, industryTerms, cities, shows, answers,
                                 flights, nowUtc, hourCycle)]
  /\ UNCHANGED <<intentVars, hourCycle, engineVars, dataVars, tz, ff, pm, fu, req, rt>>

NextRepeat == LoadTerms \/ LoadCities \/ Retrieve \/ Tick \/ RetrieveAgain

SpecRepeat == InitRepeat /\ [][NextRepeat]_vars

\* the vocabulary cache of the second call is that of the first; the show
\* records, the flight table and the definition store never change
SameBackingData ==
  rd.terms = rd.first.terms /\ rd.cities = rd.first.cities

----------------------------------------------------------------------------
(* TmAiEngine.generateResponseText and the term_lookup handler *)

\* A reply text is [kind |-> "text", header, items]: the characters of its
\* first part and the itineraries rendered under it, as formatUpcomingFlights
\* gives it; a text without itineraries has no items.  A character outside
\* ASCII is written as its code point, "U+2019" being the apostrophe of the
\* fallback texts.
PlainText(s) == [kind |-> "text", header |-> s, items |-> <<>>]

FALLBACKS ==
  << <<"S","o","r","r","y",","," ","I"," ","d","o","n","U+2019","t"," ","h","a","v","e"," ","t","h","a","t"," ","i","n","f","o"," ","y","e","t","."," ","T","r","y"," ","a","n","o","t","h","e","r"," ","t","e","r","m","?">> (* Sorry, I don{U+2019}t have that info yet. Try another term? *),
     <<"H","m","m",","," ","I"," ","c","a","n","U+2019","t"," ","f","i","n","d"," ","t","h","a","t","."," ","W","a","n","t"," ","t","o"," ","a","s","k"," ","a","b","o","u","t"," ","s","h","o","w"," ","t","i","m","e","s"," ","o","r"," ","v","e","n","u","e","s","?">> (* Hmm, I can{U+2019}t find that. Want to ask about show times or venues? *),
     <<"I"," ","d","o","n","U+2019","t"," ","h","a","v","e"," ","t","h","a","t",","," ","b","u","t"," ","I"," ","c","a","n"," ","h","e","l","p"," ","w","i","t","h"," ","s","c","h","e","d","u","l","e","s",","," ","v","e","n","u","e","s",","," ","o","r"," ","m","e","r","c","h",".">> (* I don{U+2019}t have that, but I can help with schedules, venues, or merch. *) >>

\* Math.floor(Math.random() * FALLBACKS.length) + 1
Picks == 1..Len(FALLBACKS)

\* generateResponseText with "at " before every value, time-like or not
generateResponseText_alwaysAt(retrieved, pick) ==
  IF retrieved = None THEN PlainText(FALLBACKS[pick])
  ELSE
    LET responseType == retrieved[1].responseType
        payload == retrieved[1].payload
    IN CASE responseType = "travelSchedule" ->
              IF payload.text.header = <<>> THEN PlainText(FALLBACKS[pick]) ELSE payload.text
         [] responseType = "contextualLocation" ->
              PlainText(<<"T","h","e"," ">> (* The  *) \o payload.term \o <<" ","f","o","r"," ","t","h","e"," ","s","h","o","w"," ","i","n"," ">> (*  for the show in  *) \o payload.city
                          \o <<" ","i","s"," ","a","t"," ">> (*  is at  *) \o payload.place \o <<".">>)
         [] responseType = "contextualTerm" ->
              PlainText(<<"T","h","e"," ">> (* The  *) \o payload.term \o <<" ","f","o","r"," ","t","h","e"," ","s","h","o","w"," ","i","n"," ">> (*  for the show in  *) \o payload.city
                          \o <<" ","i","s"," ","a","t"," ">> (*  is at  *) \o payload.value \o <<".">>)
         [] responseType = "genericTerm" ->
              PlainText(<<"T","h","e"," ","o","f","f","i","c","i","a","l"," ","d","e","f","i","n","i","t","i","o","n"," ","f","o","r"," ">> (* The official definition for  *) \o payload.term \o <<" ","i","s",":"," ">> (*  is:  *)
                          \o payload.definition)
         [] OTHER -> PlainText(FALLBACKS[pick])

\* generateResponseText(retrieved), pick being the fallback Math.random chooses
generateResponseText(retrieved, pick) ==
  IF retrieved = None THEN PlainText(FALLBACKS[pick])
  ELSE
    LET responseType == retrieved[1].responseType
        payload == retrieved[1].payload
    IN CASE responseType = "travelSchedule" ->
              IF payload.text.header = <<>> THEN PlainText(FALLBACKS[pick]) ELSE payload.text
         [] responseType = "contextualLocation" ->
              PlainText(<<"T","h","e"," ">> (* The  *) \o payload.term \o <<" ","f","o","r"," ","t","h","e"," ","s","h","o","w"," ","i","n"," ">> (*  for the show in  *) \o payload.city
                          \o <<" ","i","s"," ","a","t"," ">> (*  is at  *) \o payload.place \o <<".">>)
         [] responseType = "contextualTerm" ->
              PlainText(<<"T","h","e"," ">> (* The  *) \o payload.term \o <<" ","f","o","r"," ","t","h","e"," ","s","h","o","w"," ","i","n"," ">> (*  for the show in  *) \o payload.city
                          \o <<" ","i","s"," ">> (*  is  *)
                          \o (IF Includes(toLowerCase(payload.field), <<"t","i","m","e">> (* time *)) THEN <<"a","t"," ">> (* at  *) ELSE <<>>)
                          \o payload.value \o <<".">>)
         [] responseType = "genericTerm" ->
              PlainText(<<"T","h","e"," ","o","f","f","i","c","i","a","l"," ","d","e","f","i","n","i","t","i","o","n"," ","f","o","r"," ">> (* The official definition for  *) \o payload.term \o <<" ","i","s",":"," ">> (*  is:  *)
                          \o payload.definition)
         [] OTHER -> PlainText(FALLBACKS[pick])

\* line 433: this.industryTerms.find(term => normalizedMessage.includes(term))
FoundTerm(message, terms) ==
  LET hits == {i \in 1..Len(terms) : Includes(AsTuple(toLowerCase(message)), terms[i])}
  IN IF hits = {} THEN None ELSE Some(terms[CHOOSE i \in hits : \A j \in hits : i <= j])

ErrorText == <<"S","o","r","r","y",","," ","s","o","m","e","t","h","i","n","g"," ","w","e","n","t"," ","w","r","o","n","g"," ","w","h","i","l","e"," ","g","e","n","e","r","a","t","i","n","g"," ","a"," ","r","e","s","p","o","n","s","e",".">> (* Sorry, something went wrong while generating a response. *)

\* lines 495-498: the reply of the catch of generateResponse
ErrorReply == [type |-> "error", text |-> PlainText(ErrorText)]

\* the legacy match with the term of the message taken before the term of
\* the intent
LegacyLookup_messageFirst(message, intent, terms, store, pick) ==
  With(IF message # <<>> /\ FoundTerm(message, terms) # None THEN FoundTerm(message, terms)
       ELSE intent.term_id,
       LAMBDA termId :
    IF termId = None \/ termId = Some(<<>>)
      THEN [final |-> None, out |-> [type |-> "answer", text |-> generateResponseText(None, pick)]]
    ELSE IF ~store.ok THEN [final |-> None, out |-> ErrorReply]
    ELSE
      With(resolveAnswer(termId[1], store), LAMBDA definition :
        With(IF definition = None THEN None
             ELSE Some([responseType |-> "genericTerm",
                        payload |-> [term |-> termId[1], definition |-> definition[1]]]),
             LAMBDA retrieved :
          [final |-> retrieved,
           out |-> [type |-> "answer", text |-> generateResponseText(retrieved, pick)]])))

\* lines 429-446: the legacy quick match when nothing was retrieved, then
\* the text of the answer
LegacyLookup(message, intent, terms, store, pick) ==
  With(IF intent.term_id # None /\ intent.term_id # Some(<<>>) THEN intent.term_id
       ELSE IF message # <<>> THEN FoundTerm(message, terms) ELSE None,
       LAMBDA termId :
    IF termId = None \/ termId = Some(<<>>)
      THEN [final |-> None, out |-> [type |-> "answer", text |-> generateResponseText(None, pick)]]
    ELSE IF ~store.ok THEN [final |-> None, out |-> ErrorReply]
    ELSE
      With(resolveAnswer(termId[1], store), LAMBDA definition :
        With(IF definition = None THEN None
             ELSE Some([responseType |-> "genericTerm",
                        payload |-> [term |-> termId[1], definition |-> definition[1]]]),
             LAMBDA retrieved :
          [final |-> retrieved,
           out |-> [type |-> "answer", text |-> generateResponseText(retrieved, pick)]])))

\* generateResponse({message, intent}) for an intent of type term_lookup
\* (lines 419-447): the parsed query, the outcome of retrieveData, the
\* result handed to generateResponseText (final) and the reply (out)
termLookup(message, intent, terms, cts, showSrc, store, table, now, hc, pick) ==
  With(parseMessage(message), LAMBDA parsed :
    With(retrieveData(parsed, terms, cts, showSrc, store, table, now, hc), LAMBDA r :
      IF r.kind = "throws"
        THEN [parsed |-> parsed, retrieved |-> r, final |-> None, out |-> ErrorReply]
      ELSE IF r.result # None
        THEN [parsed |-> parsed, retrieved |-> r, final |-> r.result,
              out |-> [type |-> "answer", text |-> generateResponseText(r.result, pick)]]
      ELSE
        With(LegacyLookup(message, intent, terms, store, pick), LAMBDA l :
          [parsed |-> parsed, retrieved |-> r, final |-> l.final, out |-> l.out])))

\* The messages and intents the term_lookup handler is given.
LookupMessages ==
  { <<>>, <<"w","h","a","t"," ","t","i","m","e"," ","i","s"," ","s","o","u","n","d","c","h","e","c","k"," ","i","n"," ","S","y","d","n","e","y">> (* what time is soundcheck in Sydney *), <<"s","o","u","n","d","c","h","e","c","k">> (* soundcheck *), <<"W","h","a","t"," ","i","s"," ","a","n"," ","E","n","c","o","r","e","?">> (* What is an Encore? *),
    <<"w","h","e","r","e"," ","i","s"," ","t","h","e"," ","v","e","n","u","e"," ","i","n"," ","A","u","c","k","l","a","n","d">> (* where is the venue in Auckland *), <<"f","l","i","g","h","t","s"," ","t","o"," ","a","u","c","k","l","a","n","d">> (* flights to auckland *), <<"h","e","l","l","o">> (* hello *) }

\* the term_lookup intents: from the fast path of matchIntent (with the
\* term found) and without a term
LookupIntents ==
  { [intent_type |-> "term_lookup", term_id |-> None],
    [intent_type |-> "term_lookup", term_id |-> Some(<<"s","o","u","n","d","c","h","e","c","k">> (* soundcheck *))] }

\* one call of generateResponse with a term_lookup intent, with the caches
\* as they are at the call
TermLookup ==
  /\ req.phase = "idle"
  /\ \E message \in LookupMessages : \E intent \in LookupIntents : \E pick \in Picks :
       \E done \in {termLookup(message, intent, industryTerms, cities, shows, answers,
                               flights, nowUtc, hourCycle, pick)} :
         req' = [phase |-> "done", message |-> message, intent |-> intent,
                 terms |-> industryTerms, cities |-> cities,
                 parsed |-> done.parsed, retrieved |-> done.retrieved,
                 final |-> done.final, out |-> done.out]
  /\ UNCHANGED <<intentVars, hourCycle, engineVars, dataVars, tz, ff, pm, rd, fu, rt>>

NextLookup == LoadTerms \/ LoadCities \/ TermLookup

SpecLookup == InitRetrieve /\ [][NextLookup]_vars

----------------------------------------------------------------------------
(* Claims about the term_lookup pipeline, checked under SpecLookup *)

SoundcheckInSydney == <<"w","h","a","t"," ","t","i","m","e"," ","i","s"," ","s","o","u","n","d","c","h","e","c","k"," ","i","n"," ","S","y","d","n","e","y">> (* what time is soundcheck in Sydney *)

SoundcheckAnswer == <<"T","h","e"," ","s","o","u","n","d","c","h","e","c","k"," ","f","o","r"," ","t","h","e"," ","s","h","o","w"," ","i","n"," ","s","y","d","n","e","y"," ","i","s"," ","a","t"," ","1","6",":","0","0",".">> (* The soundcheck for the show in sydney is at 16:00. *)

\* C9: with "sydney" in the city vocabulary and the show record {city:
\* "sydney", soundcheck_time: "16:00", show_time: "20:00"}, the message "what
\* time is soundcheck in Sydney" parses to the verb "what time is",
\* retrieveData returns the contextualTerm variant with the guessed term
\* "soundcheck" and the field soundcheck_time, and the text rendered is "The
\* soundcheck for the show in sydney is at 16:00."
C9_SoundcheckInSydney ==
  ( /\ req.phase = "done"
    /\ req.message = SoundcheckInSydney
    /\ <<"s","y","d","n","e","y">> (* sydney *) \in Range(req.cities)
    /\ shows = [ok |-> TRUE, rows |-> <<SydneyShow>>] ) =>
    /\ req.parsed.verb = Some(V_what_time_is)
    /\ req.retrieved =
         Returned(Some([responseType |-> "contextualTerm",
                        payload |-> [term |-> <<"s","o","u","n","d","c","h","e","c","k">> (* soundcheck *), city |-> <<"s","y","d","n","e","y">> (* sydney *),
                                     field |-> <<"s","o","u","n","d","c","h","e","c","k","_","t","i","m","e">> (* soundcheck_time *), value |-> <<"1","6",":","0","0">> (* 16:00 *)]]),
                  <<"getShows">>)
    /\ req.out = [type |-> "answer", text |-> PlainText(SoundcheckAnswer)]

----------------------------------------------------------------------------
(* TmAiEngine.generateResponse *)

\* the word w between two word boundaries: /\bw\b/.test(s)
HasWord(s, w) ==
  \E i \in 1..Len(s) : OccursAt(s, w, i) /\ WordBoundary(s, i) /\ WordBoundary(s, i + Len(w))

\* /\bnext\s+show\b/i.test(message)
WantNext(message) ==
  With(AsTuple(toLowerCase(message)), LAMBDA m :
    \E i \in 1..Len(m) : \E j \in (i + 5)..Len(m) :
      /\ OccursAt(m, <<"n","e","x","t">> (* next *), i) /\ WordBoundary(m, i)
      /\ \A l \in (i + 4)..(j - 1) : IsSpaceChar(m[l])
      /\ OccursAt(m, <<"s","h","o","w">> (* show *), j) /\ WordBoundary(m, j + 4))

\* new Date(s.date) of a date column YYYY-MM-DD, in seconds; None for a
\* missing or empty column and for a text that is not a date (NaN)
ShowDate(show) ==
  With(Text(Get(show, <<"d","a","t","e">> (* date *))), LAMBDA d :
    IF Len(d) # 10 \/ d[5] # "-" \/ d[8] # "-" THEN None
    ELSE With(<<ToNumber(slice(d, 0, 4)), ToNumber(slice(d, 5, 7)), ToNumber(slice(d, 8, 10))>>,
              LAMBDA ymd :
           IF None \in Range(ymd) THEN None
           ELSE IF ymd[2][1] \notin 1..12 \/ ymd[3][1] \notin 1..31 THEN None
           ELSE Some(DateUTC(ymd[1][1], ymd[2][1], ymd[3][1], 0, 0, 0))))

\* sort((a, b) => new Date(a.date) - new Date(b.date)) on [s, at] records
SortByDate(list) ==
  LET n == Len(list)
      before(i, j) == list[i].at < list[j].at \/ (list[i].at = list[j].at /\ i < j)
      place(j) == Cardinality({i \in 1..n : before(i, j)}) + 1
  IN AsTuple([k \in 1..n |-> list[CHOOSE j \in 1..n : place(j) = k]])

\* lines 387-389 for a member that is absent or a string
MemberStr(member) == IF member # None /\ member # Some(<<>>) THEN member[1] ELSE <<"g","u","e","s","t">> (* guest *)

\* lines 400-415: the show_schedule handler on the records of the source;
\* the text is its header and the shows listed under it
showSchedule(message, member, rows, now) ==
  LET dated(i) == ShowDate(rows[i]) # None /\ ShowDate(rows[i])[1] >= now
      kept == {i \in 1..Len(rows) : dated(i)}
      inOrder == [k \in 1..Cardinality(kept) |->
                    CHOOSE i \in kept : Cardinality({j \in kept : j < i}) = k - 1]
  IN With(SortByDate(AsTuple([k \in 1..Cardinality(kept) |->
                                [s |-> rows[inOrder[k]], at |-> ShowDate(rows[inOrder[k]])[1]]])),
          LAMBDA upcoming :
       IF upcoming = <<>>
         THEN [type |-> "schedule",
               text |-> PlainText(<<"N","o"," ","u","p","c","o","m","i","n","g"," ","s","h","o","w","s"," ","f","o","u","n","d"," ","(","f","o","r",":"," ">> (* No upcoming shows found (for:  *) \o MemberStr(member) \o <<")">>)]
       ELSE
         With(SubSeq(upcoming, 1, IF WantNext(message) THEN 1
                                  ELSE IF Len(upcoming) < 10 THEN Len(upcoming) ELSE 10),
              LAMBDA list :
           [type |-> "schedule",
            text |-> [kind |-> "text",
                      header |-> <<"I"," ","f","o","u","n","d"," ">> (* I found  *) \o Decimal(Len(list))
                                   \o (IF Len(list) = 1 THEN <<" ","s","h","o","w">> (*  show *) ELSE <<" ","s","h","o","w","s">> (*  shows *))
                                   \o <<":", "\n", "\n">>,
                      items |-> list]]))

\* this.cities.find(city => normalizedMessage.includes(prefix + city))
CityAfter(m, prefix, cts) ==
  LET hits == {i \in 1..Len(cts) : Includes(m, prefix \o cts[i])}
  IN IF hits = {} THEN None ELSE Some(cts[CHOOSE i \in hits : \A j \in hits : i <= j])

NoOpts ==
  [toCity |-> <<>>, fromCity |-> <<>>, city |-> <<>>, userTz |-> DefaultTz,
   nextOnly |-> FALSE, todayOnly |-> FALSE]

\* travelArgs testing the word "next" before the cities
travelArgs_nextFirst(message, cts) ==
  With(AsTuple(toLowerCase(message)), LAMBDA m :
    IF HasWord(m, <<"n","e","x","t">> (* next *))
      THEN [limit |-> 1, opts |-> [NoOpts EXCEPT !.nextOnly = TRUE]]
    ELSE IF CityAfter(m, <<"f","r","o","m"," ">> (* from  *), cts) # None
      THEN [limit |-> 50, opts |-> [NoOpts EXCEPT !.fromCity = CityAfter(m, <<"f","r","o","m"," ">> (* from  *), cts)[1]]]
    ELSE IF CityAfter(m, <<"t","o"," ">> (* to  *), cts) # None
      THEN [limit |-> 50, opts |-> [NoOpts EXCEPT !.toCity = CityAfter(m, <<"t","o"," ">> (* to  *), cts)[1]]]
    ELSE IF HasWord(m, <<"t","o","d","a","y">> (* today *))
      THEN [limit |-> 50, opts |-> [NoOpts EXCEPT !.todayOnly = TRUE]]
    ELSE IF CityAfter(m, <<>>, cts) # None
      THEN [limit |-> 50, opts |-> [NoOpts EXCEPT !.city = CityAfter(m, <<>>, cts)[1]]]
    ELSE [limit |-> 10, opts |-> NoOpts])

\* lines 452-483: the limit and the options the travel handler passes
travelArgs(message, cts) ==
  With(AsTuple(toLowerCase(message)), LAMBDA m :
    IF CityAfter(m, <<"f","r","o","m"," ">> (* from  *), cts) # None
      THEN [limit |-> 50, opts |-> [NoOpts EXCEPT !.fromCity = CityAfter(m, <<"f","r","o","m"," ">> (* from  *), cts)[1]]]
    ELSE IF CityAfter(m, <<"t","o"," ">> (* to  *), cts) # None
      THEN [limit |-> 50, opts |-> [NoOpts EXCEPT !.toCity = CityAfter(m, <<"t","o"," ">> (* to  *), cts)[1]]]
    ELSE IF HasWord(m, <<"n","e","x","t">> (* next *))
      THEN [limit |-> 1, opts |-> [NoOpts EXCEPT !.nextOnly = TRUE]]
    ELSE IF HasWord(m, <<"t","o","d","a","y">> (* today *))
      THEN [limit |-> 50, opts |-> [NoOpts EXCEPT !.todayOnly = TRUE]]
    ELSE IF CityAfter(m, <<>>, cts) # None
      THEN [limit |-> 50, opts |-> [NoOpts EXCEPT !.city = CityAfter(m, <<>>, cts)[1]]]
    ELSE [limit |-> 10, opts |-> NoOpts])

\* "Flights lookup failed: " + e.message, the message of the RangeError
\* being one opaque character
FlightsFailed == <<"F","l","i","g","h","t","s"," ","l","o","o","k","u","p"," ","f","a","i","l","e","d",":"," ">> (* Flights lookup failed:  *) \o <<"{e.message}">>

\* lines 450-490: the travel handler
travel(message, cts, table, now, hc) ==
  With(travelArgs(message, cts), LAMBDA a :
    With(formatUpcomingFlights(a.limit, a.opts, table, now, hc), LAMBDA text :
      IF text.kind = "throws"
        THEN [type |-> "error", text |-> PlainText(FlightsFailed)]
        ELSE [type |-> "schedule", text |-> text]))

\* an exception that leaves the try block of generateResponse
Threw == [type |-> "throws"]

\* lines 387-494, the try block of generateResponse({message, intent,
\* member}): intent is None for a missing intent, else Some of a record whose
\* intent_type is a tag ("null" for null); the type of an unhandled intent is
\* one character of the text
handleIntent(message, intent, member, terms, cts, showSrc, store, table, now, hc, pick) ==
  IF intent = None
    THEN [type |-> "fallback", text |-> PlainText(<<"I","'","m"," ","n","o","t"," ","s","u","r","e"," ","h","o","w"," ","t","o"," ","h","a","n","d","l","e"," ","t","h","a","t"," ","y","e","t",".">> (* I'm not sure how to handle that yet. *))]
  ELSE IF intent[1].intent_type = "null"
    THEN [type |-> "fallback", text |-> PlainText(<<"I","'","m"," ","n","o","t"," ","s","u","r","e"," ","h","o","w"," ","t","o"," ","h","a","n","d","l","e"," ","t","h","a","t"," ","y","e","t",".">> (* I'm not sure how to handle that yet. *))]
  ELSE
    CASE intent[1].intent_type = "help" ->
           [type |-> "help",
            text |-> PlainText(<<"Y","o","u"," ","c","a","n"," ","a","s","k"," ","m","e"," ","a","b","o","u","t"," ","s","h","o","w","s",","," ","s","c","h","e","d","u","l","e","s",","," ","v","e","n","u","e","s",","," ","o","r"," ","g","e","n","e","r","a","l"," ","t","o","u","r"," ","d","e","t","a","i","l","s",".">> (* You can ask me about shows, schedules, venues, or general tour details. *))]
      [] intent[1].intent_type = "show_schedule" ->
           IF ~showSrc.ok THEN Threw
           ELSE showSchedule(message, member, showSrc.rows, now)
      [] intent[1].intent_type = "term_lookup" ->
           termLookup(message, intent[1], terms, cts, showSrc, store, table, now, hc, pick).out
      [] intent[1].intent_type = "travel" -> travel(message, cts, table, now, hc)
      [] OTHER ->
           [type |-> "unknown",
            text |-> PlainText(<<"I"," ","d","o","n","U+2019","t"," ","h","a","v","e"," ","a"," ","h","a","n","d","l","e","r"," ","f","o","r"," ","i","n","t","e","n","t",":"," ">> (* I don{U+2019}t have a handler for intent:  *) \o <<intent[1].intent_type>>)]

\* generateResponse without its catch: the exception rejects the promise
generateResponse_noCatch(message, intent, member, terms, cts, showSrc, store, table, now, hc, pick) ==
  handleIntent(message, intent, member, terms, cts, showSrc, store, table, now, hc, pick)

\* generateResponse: lines 495-498 turn an exception of the try block into
\* the error reply
generateResponse(message, intent, member, terms, cts, showSrc, store, table, now, hc, pick) ==
  With(handleIntent(message, intent, member, terms, cts, showSrc, store, table, now, hc, pick),
       LAMBDA r : IF r.type = "throws" THEN ErrorReply ELSE r)

\* The requests and sources generateResponse is applied to.
DatedShow(city, date) ==
  << [k |-> <<"d","a","t","e">> (* date *), val |-> date], [k |-> <<"c","i","t","y">> (* city *), val |-> Some(city)],
     [k |-> <<"s","h","o","w","_","t","i","m","e">> (* show_time *), val |-> Some(<<"2","0",":","0","0">> (* 20:00 *))] >>

\* a source that fails, one with shows without dates, and one with a show to
\* come, a show past, and a show whose date is not a date
RespondShowSources ==
  { [ok |-> FALSE, rows |-> <<>>],
    [ok |-> TRUE, rows |-> <<AucklandShow, SydneyShow>>],
    [ok |-> TRUE, rows |-> <<DatedShow(<<"p","e","r","t","h">> (* perth *), Some(<<"2","0","2","5","-","0","3","-","2","8">> (* 2025-03-28 *))),
                             DatedShow(<<"s","y","d","n","e","y">> (* sydney *), Some(<<"2","0","2","5","-","0","3","-","2","0">> (* 2025-03-20 *))),
                             DatedShow(<<"a","u","c","k","l","a","n","d">> (* auckland *), Some(<<"2","0","2","5","-","0","3","-","1","0">> (* 2025-03-10 *))),
                             DatedShow(<<"d","u","b","a","i">> (* dubai *), Some(<<"s","o","o","n">> (* soon *))),
                             DatedShow(<<"a","d","e","l","a","i","d","e">> (* adelaide *), None)>>] }

RespondStores ==
  { [ok |-> FALSE, defs |-> <<>>],
    [ok |-> TRUE, defs |-> <<AnswerRow(<<"E","n","c","o","r","e">> (* Encore *), LocaleAU, None),
                             AnswerRow(<<"s","o","u","n","d","c","h","e","c","k">> (* soundcheck *), LocaleAU, Some(SoundcheckDefinition))>>] }

RespondMessages ==
  { <<>>, <<"w","h","a","t"," ","t","i","m","e"," ","i","s"," ","s","o","u","n","d","c","h","e","c","k"," ","i","n"," ","S","y","d","n","e","y">> (* what time is soundcheck in Sydney *), <<"W","h","a","t"," ","i","s"," ","a","n"," ","E","n","c","o","r","e","?">> (* What is an Encore? *),
    <<"N","e","x","t"," "," ","s","h","o","w"," ","p","l","e","a","s","e">> (* Next  show please *), <<"f","l","i","g","h","t","s"," ","f","r","o","m"," ","S","y","d","n","e","y"," ","t","o"," ","A","u","c","k","l","a","n","d">> (* flights from Sydney to Auckland *), <<"f","l","i","g","h","t","s"," ","t","o"," ","a","u","c","k","l","a","n","d">> (* flights to auckland *),
    <<"n","e","x","t"," ","f","l","i","g","h","t">> (* next flight *), <<"f","l","i","g","h","t","s"," ","t","o","d","a","y">> (* flights today *), <<"a","n","y"," ","f","l","i","g","h","t","s"," ","v","i","a"," ","s","y","d","n","e","y">> (* any flights via sydney *), <<"f","l","i","g","h","t","s">> (* flights *),
    <<"n","e","x","t"," ","f","l","i","g","h","t"," ","t","o"," ","a","u","c","k","l","a","n","d">> (* next flight to auckland *), <<"n","e","x","t"," ","s","y","d","n","e","y"," ","f","l","i","g","h","t"," ","t","o","d","a","y">> (* next sydney flight today *), <<"s","y","d","n","e","y"," ","f","l","i","g","h","t","s"," ","t","o","d","a","y">> (* sydney flights today *) }

RespondIntents ==
  { None, Some([intent_type |-> "null", term_id |-> None]) }
  \cup { Some([intent_type |-> t, term_id |-> None]) :
           t \in {"help", "show_schedule", "term_lookup", "travel", "merch"} }
  \cup { Some([intent_type |-> "term_lookup", term_id |-> Some(<<"s","o","u","n","d","c","h","e","c","k">> (* soundcheck *))]) }

Members == { None, Some(<<"a","l","i","c","e">> (* alice *)) }

InitRespond ==
  /\ hourCycle \in HourCycles
  /\ IntentIdle /\ CallsIdle
  /\ industryTerms = <<>> /\ cities = <<>>
  /\ loading = {"terms", "cities"}
  /\ shows \in RespondShowSources
  /\ answers \in RespondStores
  /\ flights \in RetrieveTables
  /\ nowUtc = RetrieveNow

\* Respond with a handler that empties the vocabulary it has read
Respond_clearsTerms ==
  /\ req.phase = "idle"
  /\ \E message \in RespondMessages : \E intent \in RespondIntents :
       \E member \in Members : \E pick \in Picks :
         req' = [phase |-> "done", message |-> message, intent |-> intent,
                 terms |-> industryTerms, cities |-> cities, pending |-> loading,
                 out |-> generateResponse(message, intent, member, industryTerms, cities,
                                          shows, answers, flights, nowUtc, hourCycle, pick)]
  /\ industryTerms' = <<>>
  /\ UNCHANGED <<intentVars, hourCycle, cities, loading, dataVars, tz, ff, pm, rd, fu, rt>>

\* one call of generateResponse, with the caches as they are at the call
Respond ==
  /\ req.phase = "idle"
  /\ \E message \in RespondMessages : \E intent \in RespondIntents :
       \E member \in Members : \E pick \in Picks :
         req' = [phase |-> "done", message |-> message, intent |-> intent,
                 terms |-> industryTerms, cities |-> cities, pending |-> loading,
                 out |-> generateResponse(message, intent, member, industryTerms, cities,
                                          shows, answers, flights, nowUtc, hourCycle, pick)]
  /\ UNCHANGED <<intentVars, hourCycle, engineVars, dataVars, tz, ff, pm, rd, fu, rt>>

NextRespond == LoadTerms \/ LoadCities \/ Respond

SpecRespond == InitRespond /\ [][NextRespond]_vars

----------------------------------------------------------------------------
(* Claims about generateResponse, checked under SpecRespond *)

ResponseTypes == {"answer", "schedule", "help", "fallback", "unknown", "error"}

\* C13: for every intent (missing, null, handled, unhandled) and every
\* outcome of the show source, the definition store and the flight table,
\* generateResponse resolves with an object whose type is one of answer,
\* schedule, help, fallback, unknown, error and whose text is a text.
C13_AlwaysWellFormedReply ==
  req.phase = "done" =>
    /\ req.out.type \in ResponseTypes
    /\ req.out.text.kind = "text"

\* the show source fails under a show_schedule intent and the reply is the
\* error reply of the catch
C13_Witness ==
  /\ req.phase = "done"
  /\ ~shows.ok
  /\ req.intent = Some([intent_type |-> "show_schedule", term_id |-> None])
  /\ req.out = ErrorReply

\* C15: a request handled while loadTerms and loadCities are still pending
\* observes the empty vocabulary (industryTerms = [] and cities = []) and
\* completes with a well-formed reply that is not an error reply.
C15_RequestBeforeLoad ==
  (req.phase = "done" /\ req.pending = {"terms", "cities"}) =>
    /\ req.terms = <<>>
    /\ req.cities = <<>>
    /\ req.out.type \in ResponseTypes \ {"error"}
    /\ req.out.text.kind = "text"

OptionsSet(o) ==
  {n \in {"fromCity", "toCity", "city"} : o[n] # <<>>}
  \cup {n \in {"nextOnly", "todayOnly"} : o[n]}

\* the known cities the lowercased message contains after the prefix
KnownAfter(prefix) ==
  With(AsTuple(toLowerCase(req.message)), LAMBDA m :
    { req.cities[i] : i \in {j \in 1..Len(req.cities) : Includes(m, prefix \o req.cities[j])} })

\* the case of the precedence that applies to the message
TravelCase ==
  With(AsTuple(toLowerCase(req.message)), LAMBDA m :
    IF KnownAfter(<<"f","r","o","m"," ">> (* from  *)) # {} THEN "fromCity"
    ELSE IF KnownAfter(<<"t","o"," ">> (* to  *)) # {} THEN "toCity"
    ELSE IF HasWord(m, <<"n","e","x","t">> (* next *)) THEN "nextOnly"
    ELSE IF HasWord(m, <<"t","o","d","a","y">> (* today *)) THEN "todayOnly"
    ELSE IF KnownAfter(<<>>) # {} THEN "city"
    ELSE "none")

IsTravel == req.phase = "done" /\ req.intent = Some([intent_type |-> "travel", term_id |-> None])

\* C29: the travel handler of generateResponse sets at most one of fromCity,
\* toCity, nextOnly, todayOnly, city, chosen by the precedence: message
\* contains "from <known city>", else "to <known city>", else the word
\* "next", else the word "today", else any known city name; the city set is
\* a known city the message contains in that place; the limit is 50 for the
\* city cases and today, 1 for next, 10 when nothing matched; and the reply
\* is the scheduler's text for this limit and these options.
C29_TravelPrecedence ==
  IsTravel =>
    With(travelArgs(req.message, req.cities), LAMBDA a :
      /\ OptionsSet(a.opts) = (IF TravelCase = "none" THEN {} ELSE {TravelCase})
      /\ a.opts.userTz = DefaultTz
      /\ TravelCase = "fromCity" => a.opts.fromCity \in KnownAfter(<<"f","r","o","m"," ">> (* from  *))
      /\ TravelCase = "toCity" => a.opts.toCity \in KnownAfter(<<"t","o"," ">> (* to  *))
      /\ TravelCase = "city" => a.opts.city \in KnownAfter(<<>>)
      /\ a.limit = (CASE TravelCase = "nextOnly" -> 1
                      [] TravelCase = "none" -> 10
                      [] OTHER -> 50)
      /\ With(formatUpcomingFlights(a.limit, a.opts, flights, nowUtc, hourCycle), LAMBDA text :
           IF text.kind = "text"
             THEN req.out = [type |-> "schedule", text |-> text]
             ELSE req.out.type = "error"))

\* "next flight to auckland" with auckland in the cache: toCity is set and
\* nextOnly is not, and the flight to Auckland of the file is listed
C29_Witness ==
  /\ IsTravel
  /\ req.message = <<"n","e","x","t"," ","f","l","i","g","h","t"," ","t","o"," ","a","u","c","k","l","a","n","d">> (* next flight to auckland *)
  /\ TravelCase = "toCity"
  /\ travelArgs(req.message, req.cities).opts.toCity = <<"a","u","c","k","l","a","n","d">> (* auckland *)
  /\ ~travelArgs(req.message, req.cities).opts.nextOnly
  /\ req.out.type = "schedule"
  /\ Len(req.out.text.items) = 1

\* C27: a request observes one complete snapshot of the vocabulary cache:
\* either both loads have completed at the request or neither has, and each
\* list observed is empty (not loaded) or the whole list its load produces.
C27_OneSnapshot ==
  req.phase = "done" =>
    /\ req.pending \in {{}, {"terms", "cities"}}
    /\ req.terms = (IF "terms" \in req.pending THEN <<>> ELSE getTermIds(answers))
    /\ req.cities = (IF "cities" \in req.pending THEN <<>> ELSE getCitiesFromCsv(flights))

----------------------------------------------------------------------------
(* generateResponseText applied to retrieval results of every variant *)

ResponseKinds ==
  {"travelSchedule", "contextualLocation", "contextualTerm", "genericTerm"}

\* payloads: field names with "time" in lower case, in another case, inside
\* a longer word, and without it
RenderTerms == { <<"s","o","u","n","d","c","h","e","c","k">> (* soundcheck *), <<"v","e","n","u","e">> (* venue *) }
RenderCities == { <<"s","y","d","n","e","y">> (* sydney *), <<"a","u","c","k","l","a","n","d">> (* auckland *) }
RenderFields == { <<"s","o","u","n","d","c","h","e","c","k","_","t","i","m","e">> (* soundcheck_time *), <<"S","h","o","w","_","T","i","m","e">> (* Show_Time *), <<"t","i","m","e","z","o","n","e">> (* timezone *), <<"v","e","n","u","e","_","n","a","m","e">> (* venue_name *) }
RenderValues == { <<"1","6",":","0","0">> (* 16:00 *), <<"S","p","a","r","k"," ","A","r","e","n","a">> (* Spark Arena *) }
RenderPlaces == { <<"S","p","a","r","k"," ","A","r","e","n","a",","," ","A","u","c","k","l","a","n","d",","," ","N","Z">> (* Spark Arena, Auckland, NZ *), <<>> }
RenderTexts == { PlainText(<<>>), PlainText(<<"I"," ","f","o","u","n","d"," ","0"," ","f","l","i","g","h","t","s",".">> (* I found 0 flights. *)) }

\* no result, the four variants, and variants retrieveData never builds
RetrievedResults ==
  {None}
  \cup {Some([responseType |-> "travelSchedule", payload |-> [text |-> t]]) : t \in RenderTexts}
  \cup {Some([responseType |-> k, payload |-> p]) :
          k \in {"contextualLocation", "contextualTerm", "weather", ""},
          p \in [term : RenderTerms, city : RenderCities, field : RenderFields,
                 value : RenderValues, place : RenderPlaces]}
  \cup {Some([responseType |-> "genericTerm", payload |-> [term |-> t, definition |-> d]]) :
          t \in RenderTerms, d \in {SoundcheckDefinition}}

InitRender ==
  /\ hourCycle = "h23"
  /\ IntentIdle /\ CallsIdle /\ EngineIdle /\ DataIdle

\* one call of generateResponseText; pick is what Math.random gives
RenderText ==
  /\ rt.phase = "idle"
  /\ \E retrieved \in RetrievedResults : \E pick \in Picks :
       rt' = [phase |-> "done", retrieved |-> retrieved, pick |-> pick,
              out |-> generateResponseText(retrieved, pick)]
  /\ UNCHANGED <<intentVars, hourCycle, engineVars, dataVars, tz, ff, pm, rd, fu, req>>

NextRender == RenderText

SpecRender == InitRender /\ [][NextRender]_vars

----------------------------------------------------------------------------
(* Claims about generateResponseText, checked under SpecRender *)

FallbackTexts == {PlainText(FALLBACKS[i]) : i \in 1..Len(FALLBACKS)}

\* the text the claim gives for a result of one of the four variants
TemplateOf(responseType, payload) ==
  CASE responseType = "contextualLocation" ->
         PlainText(<<"T","h","e"," ">> (* The  *) \o payload.term \o <<" ","f","o","r"," ","t","h","e"," ","s","h","o","w"," ","i","n"," ">> (*  for the show in  *) \o payload.city \o <<" ","i","s"," ","a","t"," ">> (*  is at  *)
                     \o payload.place \o <<".">>)
    [] responseType = "contextualTerm" ->
         IF Includes(toLowerCase(payload.field), <<"t","i","m","e">> (* time *))
           THEN PlainText(<<"T","h","e"," ">> (* The  *) \o payload.term \o <<" ","f","o","r"," ","t","h","e"," ","s","h","o","w"," ","i","n"," ">> (*  for the show in  *) \o payload.city
                            \o <<" ","i","s"," ","a","t"," ">> (*  is at  *) \o payload.value \o <<".">>)
           ELSE PlainText(<<"T","h","e"," ">> (* The  *) \o payload.term \o <<" ","f","o","r"," ","t","h","e"," ","s","h","o","w"," ","i","n"," ">> (*  for the show in  *) \o payload.city
                            \o <<" ","i","s"," ">> (*  is  *) \o payload.value \o <<".">>)
    [] responseType = "genericTerm" ->
         PlainText(<<"T","h","e"," ","o","f","f","i","c","i","a","l"," ","d","e","f","i","n","i","t","i","o","n"," ","f","o","r"," ">> (* The official definition for  *) \o payload.term \o <<" ","i","s",":"," ">> (*  is:  *)
                     \o payload.definition)
    [] responseType = "travelSchedule" -> payload.text

\* the branches that end in a fallback: no result, an unrecognized variant,
\* and a travelSchedule without text
FallbackBranch(retrieved) ==
  \/ retrieved = None
  \/ retrieved[1].responseType \notin ResponseKinds
  \/ retrieved[1].responseType = "travelSchedule" /\ retrieved[1].payload.text.header = <<>>

----------------------------------------------------------------------------
(* Claims about the legacy match of the term_lookup handler, checked under
   SpecLookup *)

\* the first vocabulary term the lowercased raw message contains
MessageTerm == FoundTerm(req.message, req.terms)

\* a term_lookup request for which retrieveData returned nothing, with a
\* vocabulary term in the message
NothingRetrieved ==
  /\ req.phase = "done"
  /\ req.retrieved.kind = "value" /\ req.retrieved.result = None
  /\ MessageTerm # None

\* the reply for a term: its definition in the genericTerm template, or a
\* fallback text when the store has no definition of it
AnsweredFor(term) ==
  /\ req.out.type = "answer"
  /\ IF resolveAnswer(term, answers) # None
       THEN req.out.text = PlainText(<<"T","h","e"," ","o","f","f","i","c","i","a","l"," ","d","e","f","i","n","i","t","i","o","n"," ","f","o","r"," ">> (* The official definition for  *) \o term \o <<" ","i","s",":"," ">> (*  is:  *)
                                       \o resolveAnswer(term, answers)[1])
       ELSE req.out.text \in FallbackTexts

=============================================================================
